---- MODULE Spec2Model ----
(***************************************************************************)
(* Arcu: an Arc based Rcu.  A Slot (Arcu) holds one atomic pointer to a    *)
(* reference counted payload.  Readers bracket the pointer load and the    *)
(* strong count increment with enter_rcs / leave_rcs on their own          *)
(* EpochCounter; writers swap (or compare-exchange) the pointer and then   *)
(* run wait_for_epochs over the pool of EpochCounters before they hand the *)
(* displaced Arc to the caller.                                            *)
(*                                                                         *)
(* Every atomic memory operation of the source is one step of the model,  *)
(* together with the thread-local statements that precede it; threads      *)
(* interleave at those steps, which take effect in one global order.       *)
(***************************************************************************)
EXTENDS Integers, Sequences, FiniteSets, TLC

\* ---- bounds of the model ------------------------------------------------
NThreads == 2
MaxOps == 3

\* ---- program constants --------------------------------------------------
\* AtomicU8: the EpochCounter wraps modulo 2^8
EpochModulus == 256

\* leave_rcs calls are counted up to one more than it takes the counter to wrap
MaxLeaves == EpochModulus \div 2 + 1

Threads == 1..NThreads
\* every operation constructs at most one payload per attempt, and an attempt fails at
\* most once per write of another operation
MaxPayloads == 1 + MaxOps * MaxOps
Payloads == 1..MaxPayloads
NoPayload == 0
Impls == {"atomic", "rwlock"}
\* values a caller hands to replace
ReplaceValues == {11, 55}
\* the value the Slot is constructed with
InitialValue == 0
\* update functions handed to raw_try_update: n -> Some(n+1), and _ -> None
UpdateFns == {"inc", "none"}

\* the RcuRefs a behaviour keeps at a time, the calls of RcuRef functions it makes and
\* how far into the payload a mapped reference points
MaxRefs == 2
MaxCalls == 2
MaxDepth == 2
Places == 1..MaxRefs

\* no RcuRef in a place; no call made yet
NoRef == [arc |-> NoPayload, data |-> <<0, 0>>]
NoCall == [n |-> 0, fn |-> "none", this |-> 0, into |-> 0]

\* the closures given to map and try_map: |x| x, |x| &x.field and |_| None
Projections == {"whole", "field"}
FallibleProjections == Projections \cup {"none"}

VARIABLES
    impl,          \* which implementation of the Rcu trait the Slot is
    active_value,  \* Arcu.active_value: the payload the Slot points to
    slot_alive,    \* the Slot has not been destroyed
    strong,        \* strong[p]: Arc strong count of payload p (0: not live)
    value,         \* value[p]: the T stored in payload p
    drops,         \* drops[p]: how often payload p's destructor ran
    nalloc,        \* number of payloads constructed so far
    addr,          \* addr[p]: the address payload p was allocated at (0: not constructed)
    reuse,         \* the allocator may hand out the address of a freed payload again
    registry,      \* the pool writers scan: one Weak<EpochCounter> per entry, named by its thread
    epoch,         \* epoch[c]: EpochCounter.0 of the counter of thread c
    alive,         \* alive[c]: the Arc<EpochCounter> of thread c still exists
    leaves,        \* leaves[c]: how often leave_rcs ran on counter c (counted up to MaxLeaves)
    shared,        \* shared[c]: counter c was also used by somebody other than its thread
    pc,            \* pc[t]: where thread t is
    op,            \* op[t]: the operation thread t is running
    update,        \* update[t]: the update function of the running raw_try_update
    arc_ptr,       \* arc_ptr[t]: pointer loaded in raw_read (local `old` of raw_try_update)
    new,           \* new[t]: candidate payload (new_value / new)
    arc,           \* arc[t]: the displaced payload kept in ManuallyDrop
    snapshot,      \* snapshot[t]: the pool snapshot taken by wait_for_epochs
    idx,           \* idx[t]: position of wait_for_epochs in snapshot / epochs
    epochs,        \* epochs[t]: the (init_val, counter) pairs still waited for
    held,          \* held[t]: Arc returned by the thread's last read, not yet dropped
    displaced,     \* displaced[t]: Arc returned by the thread's last write, not yet dropped
    nops,          \* operations started so far
    ub,            \* a freed payload's count was touched (undefined behaviour happened)
    history,       \* payloads installed in the Slot, in order (first: the initial one)
    returned,      \* what the write operations returned: [new, old] for Some(old) displaced by
                   \* new, [new |-> NoPayload, old |-> NoPayload] for None
    witnessed,     \* witnessed[t]: what the running scan has observed, <<counter, "even" | "changed" | "dead">>,
                   \* and <<counter, "odd", leaves[counter]>> for a counter sampled odd
    in_rcs_at_swap,\* in_rcs_at_swap[t]: the readers that were inside raw_read at t's pointer transition
    left_rcs,      \* left_rcs[t]: those of in_rcs_at_swap[t] that have executed leave_rcs since
    latest,        \* latest[t]: no payload was installed since the pointer load of t's read
    refs,          \* refs[i]: the RcuRef in place i, its Arc and its data pointer, or NoRef
    outcome        \* the latest call of a function of RcuRef and what it returned

vars == <<impl, active_value, slot_alive, strong, value, drops, nalloc, addr, reuse, registry, epoch, alive,
          leaves, shared,
          pc, op, update, arc_ptr, new, arc, snapshot, idx, epochs, held, displaced,
          nops, ub, history, returned, witnessed, in_rcs_at_swap,
          left_rcs, latest, refs, outcome>>

\* ---- Arc -----------------------------------------------------------------

\* Arc::new: the next unused payload
Fresh == nalloc + 1

\* the addresses Arc::new may return: one never used before, identified with the
\* number of the payload, or, when the allocator reuses memory, the address of a
\* freed payload that no live payload occupies
AllocAddrs ==
    IF reuse
    THEN {Fresh} \cup {addr[q] : q \in {x \in 1..nalloc :
                 /\ strong[x] = 0
                 /\ \A y \in 1..nalloc : strong[y] > 0 => addr[y] # addr[x]}}
    ELSE {Fresh}

\* an increment that leaves the count as it is
IncOutcomes_same(p) == {strong[p]}

\* strong count after Arc::increment_strong_count / Arc::clone on p.
\* On a freed payload this is undefined behaviour: the count word may or may not change.
IncOutcomes(p) == IF strong[p] = 0 THEN {0, 1} ELSE {strong[p] + 1}

\* strong count after dropping one Arc of p (Arc::decrement_strong_count, Drop for Arc)
DecOutcome(p) == IF strong[p] = 0 THEN 0 ELSE strong[p] - 1

\* Drop for Arc: the payload's destructor runs when the last strong count goes
DropsAfterDec(p) == IF strong[p] <= 1 /\ drops[p] < 2 THEN drops[p] + 1 ELSE drops[p]

\* ---- EpochCounter (epoch_counters.rs) --------------------------------------

\* an increment that stays at the largest value instead of wrapping
fetch_add_saturating(c) == IF epoch[c] = EpochModulus - 1 THEN epoch[c] ELSE epoch[c] + 1

\* an increment by two
fetch_add_two(c) == (epoch[c] + 2) % EpochModulus

\* AtomicU8::fetch_add(1): the new value of the counter
fetch_add(c) == (epoch[c] + 1) % EpochModulus

\* EpochCounter::get_epoch
get_epoch(c) == epoch[c]

\* an upgrade that succeeds although the counter's owner is gone
upgrade_always(c) == TRUE

\* Weak::upgrade succeeds while the owner still holds its Arc<EpochCounter>
upgrade(c) == alive[c]

\* the pool of the raw calls: an array [Arc<EpochCounter>; N], one counter per thread
Pool == [i \in 1..NThreads |-> i]

\* a pool read that misses the counter registered last
get_epoch_counters_stale == SubSeq(registry, 1, Len(registry) - 1)

\* get_epoch_counters(): the pool the writers scan, GLOBAL_EPOCH_COUNTERS.read().clone()
\* for the safe calls
get_epoch_counters == registry

\* the thread's OnceCell never holds a counter
registered_never(t) == FALSE

\* THREAD_EPOCH_COUNTER of the thread is initialised, its Weak is in the registry
registered(t) == \E i \in 1..Len(registry) : registry[i] = t

\* the threads that have entered the read critical section and not yet left it
InRcs == {r \in Threads : pc[r] \in {"load", "increment_strong_count", "leave_rcs"}}

\* a first pass that takes every counter to be outside the read critical section
SampleKeeps_none(c) == FALSE

\* a first pass that keeps every counter that upgrades, whatever its value
SampleKeeps_alive(c) == upgrade(c)

\* first pass of wait_for_epochs: keep (init_val, elem) iff the counter upgrades and is odd
SampleKeeps(c) == upgrade(c) /\ get_epoch(c) % 2 # 0

\* a retain predicate with the comparison inverted
RetainKeeps_changed(pair) == upgrade(pair[2]) /\ get_epoch(pair[2]) # pair[1]

\* a retain predicate that keeps nothing, so that the loop ends after one pass
RetainKeeps_nothing(pair) == FALSE

\* the retain predicate of wait_for_epochs: keep the pair iff the counter upgrades
\* and still shows the sampled value
RetainKeeps(pair) == upgrade(pair[2]) /\ get_epoch(pair[2]) = pair[1]

\* ---- Init -------------------------------------------------------------------

\* the state after Arcu::new(InitialValue), before any thread has used the Slot
Constructed ==
    /\ impl \in Impls
    /\ addr = [p \in Payloads |-> IF p = 1 THEN 1 ELSE 0]
    /\ active_value = 1
    /\ slot_alive = TRUE
    /\ strong = [p \in Payloads |-> IF p = 1 THEN 1 ELSE 0]
    /\ value = [p \in Payloads |-> InitialValue]
    /\ drops = [p \in Payloads |-> 0]
    /\ nalloc = 1
    /\ epoch = [c \in Threads |-> 0]
    /\ alive = [c \in Threads |-> TRUE]
    /\ leaves = [c \in Threads |-> 0]
    /\ shared = [c \in Threads |-> FALSE]
    /\ pc = [t \in Threads |-> "idle"]
    /\ op = [t \in Threads |-> "none"]
    /\ update = [t \in Threads |-> "none"]
    /\ arc_ptr = [t \in Threads |-> NoPayload]
    /\ new = [t \in Threads |-> NoPayload]
    /\ arc = [t \in Threads |-> NoPayload]
    /\ snapshot = [t \in Threads |-> <<>>]
    /\ idx = [t \in Threads |-> 0]
    /\ epochs = [t \in Threads |-> <<>>]
    /\ held = [t \in Threads |-> NoPayload]
    /\ displaced = [t \in Threads |-> NoPayload]
    /\ nops = 0
    /\ ub = FALSE
    /\ history = <<1>>
    /\ returned = {}
    /\ witnessed = [t \in Threads |-> {}]
    /\ in_rcs_at_swap = [t \in Threads |-> {}]
    /\ left_rcs = [t \in Threads |-> {}]
    /\ latest = [t \in Threads |-> FALSE]
    /\ refs = [i \in Places |-> NoRef]
    /\ outcome = NoCall

\* every payload is allocated at an address of its own
Init == Constructed /\ reuse = FALSE /\ registry = Pool

\* the allocator is free to reuse the addresses of freed payloads
InitAddr == Constructed /\ reuse = TRUE /\ registry = Pool

\* ---- groups of variables an action leaves alone -------------------------------

ref_vars == <<refs, outcome>>
slot_vars == <<impl, slot_alive, reuse, registry>>
heap_vars == <<strong, value, drops, nalloc, addr, ub>>
counter_vars == <<epoch, alive, leaves, shared>>
scan_vars == <<snapshot, idx, epochs, witnessed>>
caller_vars == <<held, displaced>>
log_vars == <<history, returned>>
rcs_vars == <<in_rcs_at_swap, left_rcs>>

\* the thread is between operations and the Slot can still be borrowed
Idle(t) == pc[t] = "idle" /\ slot_alive

\* where raw_read begins in the Slot's implementation
raw_read_entry == IF impl = "atomic" THEN "enter_rcs" ELSE "rw_read"

\* ---- calls into the Rcu trait ----------------------------------------------------

\* rcu.raw_read(&epoch_counter) is called with the thread's own counter
raw_read(t) ==
    /\ Idle(t)
    /\ held[t] = NoPayload
    /\ pc' = [pc EXCEPT ![t] = raw_read_entry]
    /\ op' = [op EXCEPT ![t] = "read"]
    /\ UNCHANGED <<ref_vars, slot_vars, active_value, heap_vars, counter_vars, update, arc_ptr, new,
                   arc, scan_vars, caller_vars, log_vars, rcs_vars, latest>>

\* rcu.raw_try_update(f, &epoch_counter) is called with the thread's own counter
raw_try_update(t, f) ==
    /\ Idle(t)
    /\ displaced[t] = NoPayload
    /\ pc' = [pc EXCEPT ![t] = raw_read_entry]
    /\ op' = [op EXCEPT ![t] = "update"]
    /\ update' = [update EXCEPT ![t] = f]
    /\ UNCHANGED <<ref_vars, slot_vars, active_value, heap_vars, counter_vars, arc_ptr, new,
                   arc, scan_vars, caller_vars, log_vars, rcs_vars, latest>>

\* ---- atomic::Arcu::raw_read (atomic.rs) -----------------------------------------

\* an enter_rcs without the assertion
enter_rcs_unchecked(t) ==
    /\ pc[t] = "enter_rcs"
    /\ epoch' = [epoch EXCEPT ![t] = fetch_add(t)]
    /\ pc' = [pc EXCEPT ![t] = "load"]
    /\ UNCHANGED <<ref_vars, slot_vars, active_value, heap_vars, alive, leaves, shared, op, update,
                   arc_ptr, new, arc, scan_vars, caller_vars, nops, log_vars, rcs_vars, latest>>

\* epoch_counter.enter_rcs(): fetch_add(1), assert the old value was even
enter_rcs(t) ==
    /\ pc[t] = "enter_rcs"
    /\ epoch' = [epoch EXCEPT ![t] = fetch_add(t)]
    /\ pc' = [pc EXCEPT ![t] = IF epoch[t] % 2 = 0 THEN "load" ELSE "panicked"]
    /\ UNCHANGED <<ref_vars, slot_vars, active_value, heap_vars, alive, leaves, shared, op, update,
                   arc_ptr, new,
                   arc, scan_vars, caller_vars, nops, log_vars, rcs_vars, latest>>

\* a load that sees the pointer that was in the Slot before the latest transition
load_previous == IF Len(history) > 1 THEN history[Len(history) - 1] ELSE history[1]

\* a load that sees the pointer the Slot was constructed with
load_initial == history[1]

\* the pointer self.active_value.load(Acquire) returns
load_active_value == active_value

\* a load that waits while a writer is between its pointer transition and its return
load_after_writers(t) ==
    /\ pc[t] = "load"
    /\ \A w \in Threads : pc[w] \notin {"wait_for_epochs", "sample", "retain"}
    /\ arc_ptr' = [arc_ptr EXCEPT ![t] = load_active_value]
    /\ latest' = [latest EXCEPT ![t] = IF op[t] = "read" THEN TRUE ELSE @]
    /\ pc' = [pc EXCEPT ![t] = "increment_strong_count"]
    /\ UNCHANGED <<ref_vars, slot_vars, active_value, heap_vars, counter_vars, op, update, new,
                   arc, scan_vars, caller_vars, nops, log_vars, rcs_vars>>

\* a load inside which the reader's counter moves on to the next odd value
load_bumps_epoch(t) ==
    /\ pc[t] = "load"
    /\ arc_ptr' = [arc_ptr EXCEPT ![t] = load_active_value]
    /\ epoch' = [epoch EXCEPT ![t] = (@ + 2) % EpochModulus]
    /\ latest' = [latest EXCEPT ![t] = IF op[t] = "read" THEN TRUE ELSE @]
    /\ pc' = [pc EXCEPT ![t] = "increment_strong_count"]
    /\ UNCHANGED <<ref_vars, slot_vars, active_value, heap_vars, alive, leaves, shared, op, update, new,
                   arc, scan_vars, caller_vars, nops, log_vars, rcs_vars>>

\* let arc_ptr = self.active_value.load(Acquire)
load(t) ==
    /\ pc[t] = "load"
    /\ arc_ptr' = [arc_ptr EXCEPT ![t] = load_active_value]
    /\ latest' = [latest EXCEPT ![t] = IF op[t] = "read" THEN TRUE ELSE @]
    /\ pc' = [pc EXCEPT ![t] = "increment_strong_count"]
    /\ UNCHANGED <<ref_vars, slot_vars, active_value, heap_vars, counter_vars, op, update, new,
                   arc, scan_vars, caller_vars, nops, log_vars, rcs_vars>>

\* Arc::increment_strong_count(arc_ptr); Arc::from_raw(arc_ptr)
increment_strong_count(t) ==
    /\ pc[t] = "increment_strong_count"
    /\ \E n \in IncOutcomes(arc_ptr[t]) :
           strong' = [strong EXCEPT ![arc_ptr[t]] = n]
    /\ ub' = (ub \/ strong[arc_ptr[t]] = 0)
    /\ pc' = [pc EXCEPT ![t] = "leave_rcs"]
    /\ UNCHANGED <<ref_vars, slot_vars, active_value, value, drops, nalloc, addr, counter_vars, op, update,
                   arc_ptr, new, arc, scan_vars, caller_vars, nops, log_vars, rcs_vars,
                   latest>>

\* a raw_read that hands `old` to raw_try_update without leaving the read critical
\* section
leave_rcs_kept(t) ==
    /\ pc[t] = "leave_rcs"
    /\ op[t] # "read"
    /\ epoch[t] % 2 = 1
    /\ pc' = [pc EXCEPT ![t] = "update"]
    /\ UNCHANGED <<ref_vars, slot_vars, active_value, heap_vars, counter_vars, op, update, arc_ptr, new,
                   arc, scan_vars, caller_vars, nops, log_vars, rcs_vars, latest>>

\* epoch_counter.leave_rcs(): fetch_add(1), assert the old value was odd; raw_read
\* returns the Arc, to the caller of raw_read or into `old` of raw_try_update
leave_rcs(t) ==
    /\ pc[t] = "leave_rcs"
    /\ epoch' = [epoch EXCEPT ![t] = fetch_add(t)]
    /\ left_rcs' = [w \in Threads |-> left_rcs[w] \cup (in_rcs_at_swap[w] \cap {t})]
    /\ leaves' = [leaves EXCEPT ![t] = IF @ < MaxLeaves THEN @ + 1 ELSE @]
    /\ IF epoch[t] % 2 = 0
       THEN \* the assertion fails: the panic unwinds raw_read and drops `arc`
            /\ pc' = [pc EXCEPT ![t] = "panicked"]
            /\ strong' = [strong EXCEPT ![arc_ptr[t]] = DecOutcome(arc_ptr[t])]
            /\ drops' = [drops EXCEPT ![arc_ptr[t]] = DropsAfterDec(arc_ptr[t])]
            /\ ub' = (ub \/ strong[arc_ptr[t]] = 0)
            /\ arc_ptr' = [arc_ptr EXCEPT ![t] = NoPayload]
            /\ UNCHANGED <<held, op>>
       ELSE IF op[t] = "read"
       THEN /\ pc' = [pc EXCEPT ![t] = "idle"]
            /\ held' = [held EXCEPT ![t] = arc_ptr[t]]
            /\ arc_ptr' = [arc_ptr EXCEPT ![t] = NoPayload]
            /\ op' = [op EXCEPT ![t] = "none"]
            /\ UNCHANGED <<strong, drops, ub>>
       ELSE /\ pc' = [pc EXCEPT ![t] = "update"]
            /\ UNCHANGED <<held, arc_ptr, op, strong, drops, ub>>
    /\ UNCHANGED <<ref_vars, slot_vars, active_value, value, nalloc, addr, alive, shared, update, new,
                   arc, scan_vars, displaced, nops, log_vars, in_rcs_at_swap, latest>>

\* ---- atomic::Arcu::raw_replace (atomic.rs) ---------------------------------------

\* a swap that hands back the pointer the Slot was constructed with
swap_initial == history[1]

\* the pointer self.active_value.swap(new, AcqRel) returns
swap == active_value

\* rcu.raw_replace(Arc::new(v), ..) on the atomic Slot:
\* self.active_value.swap(Arc::into_raw(new_value), AcqRel), with the displaced
\* pointer kept in ManuallyDrop
raw_replace(t, v) ==
    /\ Idle(t)
    /\ impl = "atomic"
    /\ displaced[t] = NoPayload
    /\ Fresh \in Payloads
    /\ strong' = [strong EXCEPT ![Fresh] = 1]
    /\ value' = [value EXCEPT ![Fresh] = v]
    /\ nalloc' = Fresh
    /\ \E a \in AllocAddrs : addr' = [addr EXCEPT ![Fresh] = a]
    /\ new' = [new EXCEPT ![t] = Fresh]
    /\ arc' = [arc EXCEPT ![t] = swap]
    /\ active_value' = Fresh
    /\ history' = Append(history, Fresh)
    /\ in_rcs_at_swap' = [in_rcs_at_swap EXCEPT ![t] = InRcs]
    /\ left_rcs' = [left_rcs EXCEPT ![t] = {}]
    /\ pc' = [pc EXCEPT ![t] = "wait_for_epochs"]
    /\ op' = [op EXCEPT ![t] = "replace"]
    /\ latest' = [r \in Threads |-> FALSE]
    /\ UNCHANGED <<ref_vars, slot_vars, drops, ub, counter_vars, update, arc_ptr,
                   scan_vars, caller_vars, returned>>

\* ---- wait_for_epochs (atomic.rs, epoch_counters.rs) -----------------------------

\* a wait_for_epochs that is entered with the displaced Arc already dropped
wait_for_epochs_after_drop(t) ==
    /\ pc[t] = "wait_for_epochs"
    /\ strong' = [strong EXCEPT ![arc[t]] = DecOutcome(arc[t])]
    /\ drops' = [drops EXCEPT ![arc[t]] = DropsAfterDec(arc[t])]
    /\ snapshot' = [snapshot EXCEPT ![t] = get_epoch_counters]
    /\ idx' = [idx EXCEPT ![t] = 1]
    /\ epochs' = [epochs EXCEPT ![t] = <<>>]
    /\ witnessed' = [witnessed EXCEPT ![t] = {}]
    /\ pc' = [pc EXCEPT ![t] = IF get_epoch_counters = <<>> THEN "into_inner" ELSE "sample"]
    /\ UNCHANGED <<ref_vars, slot_vars, active_value, value, nalloc, addr, ub, counter_vars, op, update,
                   arc_ptr, new, arc, caller_vars, nops, log_vars, rcs_vars, latest>>

\* let epochs = get_epoch_counters(); over an empty pool both loops are skipped
wait_for_epochs(t) ==
    /\ pc[t] = "wait_for_epochs"
    /\ snapshot' = [snapshot EXCEPT ![t] = get_epoch_counters]
    /\ idx' = [idx EXCEPT ![t] = 1]
    /\ epochs' = [epochs EXCEPT ![t] = <<>>]
    /\ witnessed' = [witnessed EXCEPT ![t] = {}]
    /\ pc' = [pc EXCEPT ![t] = IF get_epoch_counters = <<>> THEN "into_inner" ELSE "sample"]
    /\ UNCHANGED <<ref_vars, slot_vars, active_value, heap_vars, counter_vars, op, update, arc_ptr,
                   new, arc, caller_vars, nops, log_vars, rcs_vars, latest>>

\* what a look at counter c shows of it, given the odd value sampled before (or
\* EpochModulus when there is none yet): nothing, or that it is dead, even or changed
Observed(c, sampled) ==
    IF ~upgrade(c) THEN {<<c, "dead">>}
    ELSE IF sampled = EpochModulus
    THEN (IF get_epoch(c) % 2 = 0 THEN {<<c, "even">>} ELSE {})
    ELSE (IF get_epoch(c) # sampled THEN {<<c, "changed">>} ELSE {})

\* one element of the flat_map: upgrade, get_epoch, keep the pair if the value is odd;
\* after the last element the while loop is entered, or skipped when nothing was kept
sample(t) ==
    /\ pc[t] = "sample"
    /\ LET c == snapshot[t][idx[t]]
           kept == IF SampleKeeps(c) THEN Append(epochs[t], <<get_epoch(c), c>>)
                   ELSE epochs[t]
           last == idx[t] = Len(snapshot[t])
       IN  /\ epochs' = [epochs EXCEPT ![t] = kept]
           /\ witnessed' = [witnessed EXCEPT ![t] = @ \cup Observed(c, EpochModulus)
                  \cup (IF SampleKeeps(c) THEN {<<c, "odd", leaves[c]>>} ELSE {})]
           /\ idx' = [idx EXCEPT ![t] = IF last THEN 1 ELSE @ + 1]
           /\ pc' = [pc EXCEPT ![t] =
                  IF ~last THEN "sample" ELSE IF kept = <<>> THEN "into_inner" ELSE "retain"]
    /\ UNCHANGED <<ref_vars, slot_vars, active_value, heap_vars, counter_vars, op, update, arc_ptr,
                   new, arc, snapshot, caller_vars, nops, log_vars, rcs_vars, latest>>

\* the sequence without its i-th element
RemoveAt(seq, i) == [j \in 1..(Len(seq) - 1) |-> IF j < i THEN seq[j] ELSE seq[j + 1]]

\* one element of epochs.retain(..): upgrade, get_epoch, keep the pair iff unchanged;
\* after the last element the while condition is evaluated again
retain(t) ==
    /\ pc[t] = "retain"
    /\ LET pair == epochs[t][idx[t]]
           keep == RetainKeeps(pair)
           rest == IF keep THEN epochs[t] ELSE RemoveAt(epochs[t], idx[t])
           next == IF keep THEN idx[t] + 1 ELSE idx[t]
       IN  /\ epochs' = [epochs EXCEPT ![t] = rest]
           /\ witnessed' = [witnessed EXCEPT ![t] = @ \cup Observed(pair[2], pair[1])]
           /\ idx' = [idx EXCEPT ![t] = IF next > Len(rest) THEN 1 ELSE next]
           /\ pc' = [pc EXCEPT ![t] = IF rest = <<>> THEN "into_inner" ELSE "retain"]
    /\ UNCHANGED <<ref_vars, slot_vars, active_value, heap_vars, counter_vars, op, update, arc_ptr,
                   new, arc, snapshot, caller_vars, nops, log_vars, rcs_vars, latest>>

\* a return of the Arc that was installed instead of the displaced one
into_inner_new(t) == new[t]

\* the Arc the write operation hands to its caller: ManuallyDrop::into_inner(arc)
into_inner_arc(t) == arc[t]

\* return ManuallyDrop::into_inner(arc): the write operation returns the displaced
\* Arc; raw_try_update also drops its local `old` on the way out
into_inner(t) ==
    /\ pc[t] = "into_inner"
    /\ displaced' = [displaced EXCEPT ![t] = into_inner_arc(t)]
    /\ returned' = returned \cup {[new |-> new[t], old |-> into_inner_arc(t)]}
    /\ IF op[t] = "update"
       THEN /\ strong' = [strong EXCEPT ![arc_ptr[t]] = DecOutcome(arc_ptr[t])]
            /\ drops' = [drops EXCEPT ![arc_ptr[t]] = DropsAfterDec(arc_ptr[t])]
            /\ ub' = (ub \/ strong[arc_ptr[t]] = 0)
       ELSE UNCHANGED <<strong, drops, ub>>
    /\ pc' = [pc EXCEPT ![t] = "idle"]
    /\ op' = [op EXCEPT ![t] = "none"]
    /\ update' = [update EXCEPT ![t] = "none"]
    /\ arc' = [arc EXCEPT ![t] = NoPayload]
    /\ new' = [new EXCEPT ![t] = NoPayload]
    /\ arc_ptr' = [arc_ptr EXCEPT ![t] = NoPayload]
    /\ snapshot' = [snapshot EXCEPT ![t] = <<>>]
    /\ idx' = [idx EXCEPT ![t] = 0]
    /\ witnessed' = [witnessed EXCEPT ![t] = {}]
    /\ in_rcs_at_swap' = [in_rcs_at_swap EXCEPT ![t] = {}]
    /\ left_rcs' = [left_rcs EXCEPT ![t] = {}]
    /\ UNCHANGED <<ref_vars, slot_vars, active_value, value, nalloc, addr, counter_vars,
                   epochs, held, nops, history, latest>>

\* ---- atomic::Arcu::raw_try_update (atomic.rs) ------------------------------------

\* Option<Arc<T>> of the update closure
None == <<>>
Some(x) == <<x>>

\* update: impl FnMut(&T) -> Option<Arc<T>>; "inc" is |old| Some(Arc::new(old + 1))
\* of the tests, "none" a closure that returns None
apply_update(f, n) == IF f = "inc" THEN Some(n + 1) ELSE None

\* an abort that forgets `old` instead of dropping it
abort_forgets_old(t) ==
    /\ pc[t] = "update"
    /\ apply_update(update[t], value[arc_ptr[t]]) = None
    /\ arc_ptr' = [arc_ptr EXCEPT ![t] = NoPayload]
    /\ returned' = returned \cup {[new |-> NoPayload, old |-> NoPayload]}
    /\ pc' = [pc EXCEPT ![t] = "idle"]
    /\ op' = [op EXCEPT ![t] = "none"]
    /\ update' = [update EXCEPT ![t] = "none"]
    /\ UNCHANGED <<ref_vars, slot_vars, active_value, heap_vars, counter_vars, new, arc,
                   scan_vars, caller_vars, nops, history, rcs_vars, latest>>

\* update(&old)? returned None: `old` is dropped and raw_try_update returns None
abort(t) ==
    /\ pc[t] = "update"
    /\ apply_update(update[t], value[arc_ptr[t]]) = None
    /\ strong' = [strong EXCEPT ![arc_ptr[t]] = DecOutcome(arc_ptr[t])]
    /\ drops' = [drops EXCEPT ![arc_ptr[t]] = DropsAfterDec(arc_ptr[t])]
    /\ ub' = (ub \/ strong[arc_ptr[t]] = 0)
    /\ arc_ptr' = [arc_ptr EXCEPT ![t] = NoPayload]
    /\ returned' = returned \cup {[new |-> NoPayload, old |-> NoPayload]}
    /\ pc' = [pc EXCEPT ![t] = "idle"]
    /\ op' = [op EXCEPT ![t] = "none"]
    /\ update' = [update EXCEPT ![t] = "none"]
    /\ UNCHANGED <<ref_vars, slot_vars, active_value, value, nalloc, addr, counter_vars, new, arc,
                   scan_vars, caller_vars, nops, history, rcs_vars, latest>>

\* a compare_exchange that stores without comparing
cas_always(t) == TRUE

\* a compare_exchange that fails although the slot still holds old
cas_never(t) == FALSE

\* compare_exchange(Arc::as_ptr(&old), new, ..) is Ok iff the slot still holds old
cas_succeeds(t) == addr[active_value] = addr[arc_ptr[t]]

\* let new = Arc::into_raw(update(&old)?); self.active_value.compare_exchange(..);
\* Ok: the displaced pointer goes into ManuallyDrop; Err: decrement_strong_count(new)
compare_exchange(t) ==
    /\ pc[t] = "update"
    /\ impl = "atomic"
    /\ apply_update(update[t], value[arc_ptr[t]]) # None
    /\ Fresh \in Payloads
    /\ value' = [value EXCEPT ![Fresh] = apply_update(update[t], value[arc_ptr[t]])[1]]
    /\ nalloc' = Fresh
    /\ \E a \in AllocAddrs : addr' = [addr EXCEPT ![Fresh] = a]
    /\ IF cas_succeeds(t)
       THEN /\ strong' = [strong EXCEPT ![Fresh] = 1]
            /\ new' = [new EXCEPT ![t] = Fresh]
            /\ arc' = [arc EXCEPT ![t] = active_value]
            /\ active_value' = Fresh
            /\ history' = Append(history, Fresh)
            /\ in_rcs_at_swap' = [in_rcs_at_swap EXCEPT ![t] = InRcs]
            /\ left_rcs' = [left_rcs EXCEPT ![t] = {}]
            /\ latest' = [r \in Threads |-> FALSE]
            /\ pc' = [pc EXCEPT ![t] = "wait_for_epochs"]
            /\ UNCHANGED drops
       ELSE /\ drops' = [drops EXCEPT ![Fresh] = 1]
            /\ pc' = [pc EXCEPT ![t] = "drop_old"]
            /\ UNCHANGED <<strong, new, arc, active_value, history, rcs_vars, latest>>
    /\ UNCHANGED <<ref_vars, slot_vars, ub, counter_vars, op, update, arc_ptr, scan_vars,
                   caller_vars, nops, returned>>

\* a continue that forgets `old` instead of dropping it
drop_old_leaks(t) ==
    /\ pc[t] = "drop_old"
    /\ arc_ptr' = [arc_ptr EXCEPT ![t] = NoPayload]
    /\ pc' = [pc EXCEPT ![t] = raw_read_entry]
    /\ UNCHANGED <<ref_vars, slot_vars, active_value, heap_vars, counter_vars, op, update, new,
                   arc, scan_vars, caller_vars, nops, log_vars, rcs_vars, latest>>

\* continue: `old` goes out of scope and the loop starts over with raw_read
drop_old(t) ==
    /\ pc[t] = "drop_old"
    /\ strong' = [strong EXCEPT ![arc_ptr[t]] = DecOutcome(arc_ptr[t])]
    /\ drops' = [drops EXCEPT ![arc_ptr[t]] = DropsAfterDec(arc_ptr[t])]
    /\ ub' = (ub \/ strong[arc_ptr[t]] = 0)
    /\ arc_ptr' = [arc_ptr EXCEPT ![t] = NoPayload]
    /\ pc' = [pc EXCEPT ![t] = raw_read_entry]
    /\ UNCHANGED <<ref_vars, slot_vars, active_value, value, nalloc, addr, counter_vars, op, update, new,
                   arc, scan_vars, caller_vars, nops, log_vars, rcs_vars, latest>>

\* ---- rwlock::Arcu (rwlock.rs) ------------------------------------------------------

\* self.active_value.read().unwrap().clone(), as raw_read and as the first statement
\* of the raw_try_update loop
rw_read(t) ==
    /\ pc[t] = "rw_read"
    /\ strong' = [strong EXCEPT ![active_value] = @ + 1]
    /\ IF op[t] = "read"
       THEN /\ held' = [held EXCEPT ![t] = active_value]
            /\ latest' = [latest EXCEPT ![t] = TRUE]
            /\ op' = [op EXCEPT ![t] = "none"]
            /\ pc' = [pc EXCEPT ![t] = "idle"]
            /\ UNCHANGED arc_ptr
       ELSE /\ arc_ptr' = [arc_ptr EXCEPT ![t] = active_value]
            /\ pc' = [pc EXCEPT ![t] = "update"]
            /\ UNCHANGED <<held, latest, op>>
    /\ UNCHANGED <<ref_vars, slot_vars, active_value, value, drops, nalloc, addr, ub, counter_vars, update,
                   new, arc, scan_vars, displaced, nops, log_vars, rcs_vars>>

\* std::mem::replace(&mut self.active_value.write().unwrap(), new_value)
rw_replace(t, v) ==
    /\ Idle(t)
    /\ impl = "rwlock"
    /\ displaced[t] = NoPayload
    /\ Fresh \in Payloads
    /\ strong' = [strong EXCEPT ![Fresh] = 1]
    /\ value' = [value EXCEPT ![Fresh] = v]
    /\ nalloc' = Fresh
    /\ \E a \in AllocAddrs : addr' = [addr EXCEPT ![Fresh] = a]
    /\ displaced' = [displaced EXCEPT ![t] = active_value]
    /\ active_value' = Fresh
    /\ history' = Append(history, Fresh)
    /\ returned' = returned \cup {[new |-> Fresh, old |-> active_value]}
    /\ latest' = [r \in Threads |-> FALSE]
    /\ UNCHANGED <<ref_vars, slot_vars, drops, ub, counter_vars, pc, op, update, arc_ptr, new, arc,
                   scan_vars, held, rcs_vars>>

\* if Arc::ptr_eq(&cur, &old)
ptr_eq(t) == addr[active_value] = addr[arc_ptr[t]]

\* let new = update(&old)?; let mut cur = self.active_value.write().unwrap();
\* ptr_eq: return Some(mem::replace(&mut cur, new)); otherwise new and old are
\* dropped and the loop starts over
rw_write(t) ==
    /\ pc[t] = "update"
    /\ impl = "rwlock"
    /\ apply_update(update[t], value[arc_ptr[t]]) # None
    /\ Fresh \in Payloads
    /\ value' = [value EXCEPT ![Fresh] = apply_update(update[t], value[arc_ptr[t]])[1]]
    /\ nalloc' = Fresh
    /\ \E a \in AllocAddrs : addr' = [addr EXCEPT ![Fresh] = a]
    /\ IF ptr_eq(t)
       THEN /\ strong' = [strong EXCEPT ![Fresh] = 1, ![arc_ptr[t]] = @ - 1]
            /\ displaced' = [displaced EXCEPT ![t] = active_value]
            /\ active_value' = Fresh
            /\ history' = Append(history, Fresh)
            /\ returned' = returned \cup {[new |-> Fresh, old |-> active_value]}
            /\ pc' = [pc EXCEPT ![t] = "idle"]
            /\ op' = [op EXCEPT ![t] = "none"]
            /\ update' = [update EXCEPT ![t] = "none"]
            /\ latest' = [r \in Threads |-> FALSE]
            /\ UNCHANGED drops
       ELSE /\ strong' = [strong EXCEPT ![arc_ptr[t]] = DecOutcome(arc_ptr[t])]
            /\ drops' = [drops EXCEPT ![Fresh] = 1,
                                      ![arc_ptr[t]] = DropsAfterDec(arc_ptr[t])]
            /\ pc' = [pc EXCEPT ![t] = "rw_read"]
            /\ UNCHANGED <<displaced, active_value, log_vars, op, update, latest>>
    /\ arc_ptr' = [arc_ptr EXCEPT ![t] = NoPayload]
    /\ UNCHANGED <<ref_vars, slot_vars, ub, counter_vars, new, arc, scan_vars, held, nops, rcs_vars>>

\* ---- what callers do with the Arcs they got, thread exit, end of the Slot -----------

\* the caller drops an Arc obtained from a read
drop_held(t) ==
    /\ pc[t] = "idle"
    /\ held[t] # NoPayload
    /\ strong' = [strong EXCEPT ![held[t]] = DecOutcome(held[t])]
    /\ drops' = [drops EXCEPT ![held[t]] = DropsAfterDec(held[t])]
    /\ ub' = (ub \/ strong[held[t]] = 0)
    /\ held' = [held EXCEPT ![t] = NoPayload]
    /\ latest' = [latest EXCEPT ![t] = FALSE]
    /\ UNCHANGED <<ref_vars, slot_vars, active_value, value, nalloc, addr, counter_vars, pc, op, update,
                   arc_ptr, new, arc, scan_vars, displaced, nops, log_vars, rcs_vars>>

\* the caller drops the Arc a write operation returned
drop_displaced(t) ==
    /\ pc[t] = "idle"
    /\ displaced[t] # NoPayload
    /\ strong' = [strong EXCEPT ![displaced[t]] = DecOutcome(displaced[t])]
    /\ drops' = [drops EXCEPT ![displaced[t]] = DropsAfterDec(displaced[t])]
    /\ ub' = (ub \/ strong[displaced[t]] = 0)
    /\ displaced' = [displaced EXCEPT ![t] = NoPayload]
    /\ UNCHANGED <<ref_vars, slot_vars, active_value, value, nalloc, addr, counter_vars, pc, op, update,
                   arc_ptr, new, arc, scan_vars, held, nops, log_vars, rcs_vars, latest>>

\* the thread ends: its thread-local Arc<EpochCounter> is dropped, so the Weak in
\* the registry no longer upgrades
thread_exit(t) ==
    /\ pc[t] = "idle"
    /\ held[t] = NoPayload
    /\ displaced[t] = NoPayload
    /\ pc' = [pc EXCEPT ![t] = "exited"]
    /\ alive' = [alive EXCEPT ![t] = FALSE]
    /\ UNCHANGED <<ref_vars, slot_vars, active_value, heap_vars, epoch, leaves, shared, op, update,
                   arc_ptr, new,
                   arc, scan_vars, caller_vars, nops, log_vars, rcs_vars, latest>>

\* the Slot goes out of scope while no operation borrows it: RwLock<Arc<T>> drops
\* its Arc; AtomicPtr<T> has no destructor and the atomic Arcu has no Drop impl
drop_slot ==
    /\ slot_alive
    /\ \A t \in Threads : pc[t] \in {"idle", "exited"}
    /\ slot_alive' = FALSE
    /\ IF impl = "rwlock"
       THEN /\ strong' = [strong EXCEPT ![active_value] = DecOutcome(active_value)]
            /\ drops' = [drops EXCEPT ![active_value] = DropsAfterDec(active_value)]
       ELSE UNCHANGED <<strong, drops>>
    /\ UNCHANGED <<ref_vars, impl, reuse, registry, active_value, value, nalloc, addr, ub, counter_vars, pc, op, update,
                   arc_ptr, new, arc, scan_vars, caller_vars, nops, log_vars, rcs_vars,
                   latest>>

\* ---- the operations threads issue, at most MaxOps of them in a behaviour --------------

read(t) ==
    /\ nops < MaxOps
    /\ nops' = nops + 1
    /\ raw_read(t)

replace(t, v) ==
    /\ nops < MaxOps
    /\ nops' = nops + 1
    /\ \/ raw_replace(t, v)
       \/ rw_replace(t, v)

try_update(t, f) ==
    /\ nops < MaxOps
    /\ nops' = nops + 1
    /\ raw_try_update(t, f)

\* a step inside an operation that has begun
step(t) ==
    \/ enter_rcs(t)
    \/ load(t)
    \/ increment_strong_count(t)
    \/ leave_rcs(t)
    \/ wait_for_epochs(t)
    \/ sample(t)
    \/ retain(t)
    \/ into_inner(t)
    \/ abort(t)
    \/ compare_exchange(t)
    \/ drop_old(t)
    \/ rw_read(t)
    \/ rw_write(t)

Next ==
    \/ \E t \in Threads : read(t)
    \/ \E t \in Threads, v \in ReplaceValues : replace(t, v)
    \/ \E t \in Threads, f \in UpdateFns : try_update(t, f)
    \/ \E t \in Threads : step(t)
    \/ \E t \in Threads : drop_held(t)
    \/ \E t \in Threads : drop_displaced(t)
    \/ \E t \in Threads : thread_exit(t)
    \/ drop_slot

Spec == Init /\ [][Next]_vars

\* ---- properties ------------------------------------------------------------------------

\* the writers that have exchanged the pointer and are inside wait_for_epochs
Waiting == {w \in Threads : pc[w] \in {"wait_for_epochs", "sample", "retain"}}

\* the strong counts on payload p that somebody is entitled to: the Slot's, the Arcs
\* held by callers, the ManuallyDrop of a writer and the `old` of raw_try_update
Owners(p) ==
    {<<0, "slot">> : x \in {y \in {0} : active_value = p /\ (slot_alive \/ impl = "atomic")}}
    \cup {<<t, "held">> : t \in {r \in Threads : held[r] = p}}
    \cup {<<t, "displaced">> : t \in {r \in Threads : displaced[r] = p}}
    \cup {<<t, "arc">> : t \in {r \in Threads : arc[r] = p}}
    \cup {<<t, "old">> : t \in {r \in Threads : arc_ptr[r] = p /\
             pc[r] \in {"leave_rcs", "update", "drop_old", "wait_for_epochs", "sample",
                        "retain", "into_inner"}}}

\* C1: the strong-count increment inside raw_read is never applied to a payload
\* whose strong count has reached zero, i.e. that has been freed
C1_NoUseAfterFree ==
    /\ ~ub
    /\ \A t \in Threads : pc[t] = "increment_strong_count" =>
           strong[arc_ptr[t]] > 0 /\ drops[arc_ptr[t]] = 0

\* a reader is about to increment the count of a payload a writer has displaced
\* and is waiting to release
C1_Witness ==
    \E r \in Threads, w \in Threads :
        /\ pc[r] = "increment_strong_count"
        /\ pc[w] = "retain"
        /\ arc[w] = arc_ptr[r]
        /\ strong[arc_ptr[r]] = 1

\* C2: wait_for_epochs returns only when every counter of its snapshot was seen
\* even at its first sample, seen changed from its odd sample, or failed to upgrade
C2_EveryCounterWitnessed ==
    \A w \in Threads : pc[w] = "into_inner" =>
        \A i \in 1..Len(snapshot[w]) :
            \E kind \in {"even", "changed", "dead"} : <<snapshot[w][i], kind>> \in witnessed[w]

\* wait_for_epochs has returned after seeing one counter even and another changed
C2_Witness ==
    \E w \in Threads, c \in Threads, d \in Threads :
        /\ pc[w] = "into_inner"
        /\ <<c, "changed">> \in witnessed[w]
        /\ <<d, "even">> \in witnessed[w]

\* C3: when a writer's wait is over, every reader that had entered the read critical
\* section before the writer's swap has left it
C3_Quiescence ==
    \A w \in Threads : pc[w] = "into_inner" => in_rcs_at_swap[w] \subseteq left_rcs[w]

\* a replace is about to return that had swapped while a reader was in its critical section
C3_Witness ==
    \E w \in Threads :
        /\ pc[w] = "into_inner"
        /\ op[w] = "replace"
        /\ in_rcs_at_swap[w] # {}

\* C4: between the pointer transition and the return of wait_for_epochs the displaced
\* payload keeps the strong count the Slot held on it, and no payload is destroyed while
\* a reader that loaded its pointer is still inside the read critical section
C4_ReleasedAfterWait ==
    /\ \A w \in Waiting :
           /\ strong[arc[w]] = Cardinality(Owners(arc[w]))
           /\ drops[arc[w]] = 0
    /\ \A r \in Threads : pc[r] \in {"increment_strong_count", "leave_rcs"} =>
           drops[arc_ptr[r]] = 0

\* a writer waits while a reader that loaded the displaced pointer has taken its count
\* and not yet left the read critical section
C4_Witness ==
    \E w \in Waiting, r \in Threads :
        /\ pc[r] = "leave_rcs"
        /\ arc_ptr[r] = arc[w]
        /\ strong[arc[w]] = 2

\* the write operations that returned a displaced Arc
Displacements == {r \in returned : r.old # NoPayload}

\* no write operation is between its pointer transition and its return
NoWriteInFlight == \A t \in Threads : pc[t] \notin {"wait_for_epochs", "sample", "retain", "into_inner"}

\* the payloads installed before the one the Slot holds now
Superseded == {history[i] : i \in 1..(Len(history) - 1)}

\* the integers stored in payloads so far
Values == {value[p] : p \in 1..nalloc}

\* C5: once the replace operations have returned, the values returned as displaced
\* are a permutation of the initial value and all installed values but the last,
\* and a read made after the last replace returns the last installed value
C5_IdentityPreservation ==
    /\ NoWriteInFlight =>
           \A x \in Values :
               Cardinality({r \in Displacements : value[r.old] = x})
                   = Cardinality({i \in 1..(Len(history) - 1) : value[history[i]] = x})
    /\ \A t \in Threads : held[t] # NoPayload /\ latest[t] =>
           held[t] = history[Len(history)]

\* replace(11) and replace(55) have returned and a read made afterwards is held
C5_Witness ==
    /\ NoWriteInFlight
    /\ Len(history) = 3
    /\ value[history[2]] = 11
    /\ value[history[3]] = 55
    /\ Cardinality(Displacements) = 2
    /\ \E t \in Threads : latest[t] /\ held[t] = history[3]

\* C6: every replace returns the payload that was in the Slot immediately before its
\* own swap, no payload is returned twice, and once all have returned the displaced
\* payloads and the payload in the Slot are exactly the initial and the installed
\* payloads; a read made after the last swap returns an installed payload
C6_ReplacesLinearize ==
    /\ \A r \in Displacements :
           \E i \in 1..(Len(history) - 1) : history[i] = r.old /\ history[i + 1] = r.new
    /\ \A r1 \in Displacements, r2 \in Displacements : r1.old = r2.old => r1 = r2
    /\ NoWriteInFlight =>
           /\ {r.old : r \in Displacements} = Superseded
           /\ active_value \notin Superseded
           /\ Superseded \cup {active_value} = {history[i] : i \in 1..Len(history)}
    /\ \A t \in Threads : held[t] # NoPayload /\ latest[t] /\ Len(history) > 1 =>
           held[t] \in {history[i] : i \in 2..Len(history)}

\* two replaces overlapped: the one that swapped second has returned the first one's
\* payload while the first is still about to return the initial payload
C6_Witness ==
    \E w1 \in Threads, w2 \in Threads :
        /\ pc[w1] = "into_inner" /\ op[w1] = "replace" /\ arc[w1] = history[1]
        /\ displaced[w2] = history[2]
        /\ value[history[3]] \in ReplaceValues
        /\ [new |-> history[3], old |-> history[2]] \in returned

\* ---- the scenario of raw_update2 (tests/basic.rs) ---------------------------------------

\* scope.spawn(|| rcu.raw_try_update(|old| Some(Arc::new(old + 1)), epoch_counter)):
\* one call per thread, each with its own counter
spawn(t) ==
    /\ nops < NThreads
    /\ nops' = nops + 1
    /\ raw_try_update(t, "inc")

\* the spawned closure ends: to_drop is dropped and the scope joins the thread
join(t) ==
    /\ pc[t] = "idle"
    /\ displaced[t] # NoPayload
    /\ strong' = [strong EXCEPT ![displaced[t]] = DecOutcome(displaced[t])]
    /\ drops' = [drops EXCEPT ![displaced[t]] = DropsAfterDec(displaced[t])]
    /\ ub' = (ub \/ strong[displaced[t]] = 0)
    /\ displaced' = [displaced EXCEPT ![t] = NoPayload]
    /\ pc' = [pc EXCEPT ![t] = "joined"]
    /\ UNCHANGED <<ref_vars, slot_vars, active_value, value, nalloc, addr, counter_vars, op, update,
                   arc_ptr, new, arc, scan_vars, held, nops, log_vars, rcs_vars, latest>>

\* after the scope: let final_val = rcu.raw_read(&epoch_counters_ref[0])
final_read ==
    /\ \A t \in Threads : pc[t] = "joined"
    /\ pc' = [pc EXCEPT ![1] = raw_read_entry]
    /\ op' = [op EXCEPT ![1] = "read"]
    /\ UNCHANGED <<ref_vars, slot_vars, active_value, heap_vars, counter_vars, update, arc_ptr, new,
                   arc, scan_vars, caller_vars, nops, log_vars, rcs_vars, latest>>

\* a step inside a call of the scenario, whose update closure never returns None
step_update(t) ==
    \/ enter_rcs(t)
    \/ load(t)
    \/ increment_strong_count(t)
    \/ leave_rcs(t)
    \/ wait_for_epochs(t)
    \/ sample(t)
    \/ retain(t)
    \/ into_inner(t)
    \/ compare_exchange(t)
    \/ drop_old(t)
    \/ rw_read(t)
    \/ rw_write(t)

NextUpdate ==
    \/ \E t \in Threads : spawn(t)
    \/ \E t \in Threads : step_update(t)
    \/ \E t \in Threads : join(t)
    \/ final_read

\* every thread that can take a step eventually takes one
SpecUpdate ==
    /\ Init
    /\ [][NextUpdate]_vars
    /\ \A t \in Threads : WF_vars(spawn(t) \/ step_update(t) \/ join(t))
    /\ WF_vars(final_read)

\* the final raw_read of the scenario has returned
FinalReadDone == (\A t \in Threads : pc[t] \in {"idle", "joined"}) /\ held[1] # NoPayload

\* C7: with NThreads threads each calling raw_try_update(n -> n + 1) once on a Slot
\* holding 0, every call returns and the final read returns NThreads, for the atomic
\* and for the rwlock Slot
C7_NoLostIncrement ==
    <>[](/\ FinalReadDone
         /\ Cardinality(Displacements) = NThreads
         /\ value[held[1]] = NThreads)

\* the final read has returned after a call had to retry
C7_Witness ==
    /\ FinalReadDone
    /\ Cardinality(Displacements) = NThreads
    /\ nalloc > NThreads + 1

\* C8 as stated: each integer in [1, NThreads] appears exactly once among the values
\* returned as displaced by the NThreads calls
C8_DisplacedOneToN ==
    Cardinality(Displacements) = NThreads =>
        \A k \in 1..NThreads : Cardinality({r \in Displacements : value[r.old] = k}) = 1

\* C8: each integer in [0, NThreads - 1] appears exactly once among the values
\* returned as displaced by the NThreads calls, and no other value appears
C8_DisplacedZeroToNMinusOne ==
    /\ \A r \in Displacements : value[r.old] \in 0..(NThreads - 1)
    /\ \A k \in 0..(NThreads - 1) : Cardinality({r \in Displacements : value[r.old] = k}) <= 1
    /\ Cardinality(Displacements) = NThreads =>
           \A k \in 0..(NThreads - 1) :
               Cardinality({r \in Displacements : value[r.old] = k}) = 1

\* all calls of the scenario have returned their displaced Arc
C8_Witness ==
    /\ Cardinality(Displacements) = NThreads
    /\ \A t \in Threads : pc[t] = "joined"
    /\ value[active_value] = NThreads

\* C9: when the update function returns none, raw_try_update returns none in its next
\* step, with no compare-and-swap and no wait_for_epochs: the Slot's pointer is
\* unchanged, nothing is installed, allocated or displaced, the strong count the call
\* took on the payload it read is given back so that the payload's count is again the
\* number of its owners, and the caller's counter is even
C9_AbortFrame ==
    [][\A t \in Threads :
          (/\ pc[t] = "update"
           /\ apply_update(update[t], value[arc_ptr[t]]) = None
           /\ pc'[t] # pc[t])
          => /\ pc'[t] = "idle"
             /\ [new |-> NoPayload, old |-> NoPayload] \in returned'
             /\ Displacements' = Displacements
             /\ active_value' = active_value
             /\ history' = history
             /\ nalloc' = nalloc
             /\ displaced'[t] = displaced[t]
             /\ snapshot'[t] = <<>>
             /\ epoch' = epoch
             /\ epoch[t] % 2 = 0
             /\ \A p \in Payloads : p = arc_ptr[t] =>
                    /\ strong'[p] = strong[p] - 1
                    /\ strong'[p] = Cardinality(Owners(p))'
                    /\ (p = active_value => drops'[p] = 0)]_vars

\* a raw_try_update whose update function returned none has returned while another
\* thread holds an Arc of the payload in the Slot
C9_Witness ==
    /\ [new |-> NoPayload, old |-> NoPayload] \in returned
    /\ \E t \in Threads : held[t] = active_value
    /\ strong[active_value] = 2

\* C10: once the Slot and every Arc handed out are destroyed, every constructed
\* payload has strong count zero and has been dropped exactly once
C10_DropAccounting ==
    (/\ ~slot_alive
     /\ \A t \in Threads : /\ pc[t] \in {"idle", "exited"}
                           /\ held[t] = NoPayload
                           /\ displaced[t] = NoPayload)
    => \A p \in 1..nalloc : strong[p] = 0 /\ drops[p] = 1

\* C11: a counter is odd exactly while its thread is between the enter_rcs and the
\* leave_rcs of a raw_read; every other counter is even
C11_Parity ==
    \A t \in Threads : (epoch[t] % 2 = 1) <=> (t \in InRcs)

\* a thread is inside its second read critical section, another thread is outside
C11_Witness ==
    \E t \in Threads, u \in Threads :
        /\ t \in InRcs /\ epoch[t] = 3
        /\ u \notin InRcs /\ epoch[u] = 2

\* C12: the payload of an Arc obtained by a read has strong count at least 1 and has
\* not been dropped, whatever was written to the Slot since and whoever dropped the
\* displaced Arcs
C12_SnapshotKeepsAlive ==
    \A t \in Threads : held[t] # NoPayload =>
        /\ strong[held[t]] >= 1
        /\ drops[held[t]] = 0

\* a thread still holds a payload that a later write displaced, that write has returned
\* and the displaced Arc is dropped: the held Arc is the last one
C12_Witness ==
    \E t \in Threads :
        /\ held[t] \in {r.old : r \in Displacements}
        /\ \A w \in Threads : displaced[w] # held[t] /\ arc[w] # held[t] /\ arc_ptr[w] # held[t]
        /\ strong[held[t]] = 1

\* C13: a pointer load of a read returns the payload installed by the most recent
\* swap or successful compare-and-swap, and a read made after the last write returns
\* the payload that write installed, never a displaced one
C13_Visibility ==
    /\ \A t \in Threads : pc[t] \in {"increment_strong_count", "leave_rcs"} /\ latest[t] =>
           arc_ptr[t] = active_value
    /\ \A t \in Threads : held[t] # NoPayload /\ latest[t] =>
           /\ held[t] = active_value
           /\ \A r \in Displacements : r.old # held[t]

\* replace(55) has returned and a read that began afterwards has loaded the pointer
C13_Witness ==
    \E t \in Threads :
        /\ pc[t] = "increment_strong_count"
        /\ op[t] = "read"
        /\ latest[t]
        /\ Len(history) = 2
        /\ value[arc_ptr[t]] = 55
        /\ [new |-> history[2], old |-> history[1]] \in returned

\* the statements of raw_read on the atomic Slot
read_step(t) ==
    \/ enter_rcs(t)
    \/ load(t)
    \/ increment_strong_count(t)
    \/ leave_rcs(t)

\* the threads of a reader are scheduled; nothing is assumed of the writers
SpecReaders ==
    /\ Init
    /\ [][Next]_vars
    /\ \A t \in Threads : WF_vars(read_step(t))

\* where a thread is while inside raw_read of the atomic Slot
ReadPcs == {"enter_rcs", "load", "increment_strong_count", "leave_rcs"}

\* C15: raw_read on the atomic Slot is wait-free: at each of its four statements the
\* reader can take its step whatever the other threads do, each step moves it to the
\* next statement, and so the read completes
C15_ReadWaitFree ==
    /\ [][\A t \in Threads : pc[t] \in ReadPcs /\ pc'[t] # pc[t] =>
              <<pc[t], pc'[t]>> \in {<<"enter_rcs", "load">>,
                                     <<"load", "increment_strong_count">>,
                                     <<"increment_strong_count", "leave_rcs">>,
                                     <<"leave_rcs", "idle">>,
                                     <<"leave_rcs", "update">>}]_vars
    /\ [](\A t \in Threads : pc[t] \in ReadPcs => ENABLED <<read_step(t)>>_vars)
    /\ \A t \in Threads : (pc[t] = "enter_rcs") ~> (pc[t] \notin ReadPcs)

\* a reader is inside raw_read while a writer spins in wait_for_epochs on its counter
C15_Witness ==
    \E r \in Threads, w \in Threads :
        /\ pc[r] = "leave_rcs"
        /\ pc[w] = "retain"
        /\ <<epoch[r], r>> \in {epochs[w][i] : i \in 1..Len(epochs[w])}

\* the odd values a counter can show within the operations of a behaviour
OddEpochs == {2 * k + 1 : k \in 0..MaxOps}

\* C16: while a counter that a writer sampled odd keeps that value and its owner
\* lives, the writer keeps the pair and stays in the retain loop; so if the reader
\* stays forever inside that read critical section the writer never returns
C16_StuckReaderWedges ==
    /\ [][\A w \in Threads : pc[w] = "retain" =>
              \A i \in 1..Len(epochs[w]) :
                  (alive[epochs[w][i][2]] /\ epoch[epochs[w][i][2]] = epochs[w][i][1])
                  => /\ pc'[w] = "retain"
                     /\ \E j \in 1..Len(epochs'[w]) : epochs'[w][j] = epochs[w][i]]_vars
    /\ \A w \in Threads, c \in Threads, v \in OddEpochs :
           []((/\ pc[w] = "retain"
               /\ \E i \in 1..Len(epochs[w]) : epochs[w][i] = <<v, c>>
               /\ [](alive[c] /\ epoch[c] = v))
              => [](pc[w] = "retain"))

\* a writer is in the retain loop for a reader that is still inside the read critical
\* section the writer sampled
C16_Witness ==
    \E w \in Threads, r \in Threads :
        /\ pc[w] = "retain"
        /\ pc[r] = "increment_strong_count"
        /\ epochs[w] = <<<<epoch[r], r>>>>
        /\ arc[w] = arc_ptr[r]

\* ---- a counter used against the contract of raw_read ----------------------------------

\* somebody else runs enter_rcs or leave_rcs on the counter of thread c, once
foreign_use(c) ==
    /\ ~shared[c]
    /\ alive[c]
    /\ epoch' = [epoch EXCEPT ![c] = fetch_add(c)]
    /\ shared' = [shared EXCEPT ![c] = TRUE]
    /\ UNCHANGED <<ref_vars, slot_vars, active_value, heap_vars, alive, leaves, pc, op, update, arc_ptr,
                   new, arc, scan_vars, caller_vars, nops, log_vars, rcs_vars, latest>>

\* the panic of a failed assertion ends the thread: the Arcs it still owned and its
\* thread-local Arc<EpochCounter> are dropped, whatever value the counter shows
unwind(t) ==
    /\ pc[t] = "panicked"
    /\ pc' = [pc EXCEPT ![t] = "exited"]
    /\ alive' = [alive EXCEPT ![t] = FALSE]
    /\ IF displaced[t] # NoPayload
       THEN /\ strong' = [strong EXCEPT ![displaced[t]] = DecOutcome(displaced[t])]
            /\ drops' = [drops EXCEPT ![displaced[t]] = DropsAfterDec(displaced[t])]
            /\ ub' = (ub \/ strong[displaced[t]] = 0)
       ELSE UNCHANGED <<strong, drops, ub>>
    /\ displaced' = [displaced EXCEPT ![t] = NoPayload]
    /\ UNCHANGED <<ref_vars, slot_vars, active_value, value, nalloc, addr, epoch, leaves, shared, op, update,
                   arc_ptr, new, arc, scan_vars, held, nops, log_vars, rcs_vars, latest>>

NextMisuse ==
    \/ Next
    \/ \E c \in Threads : foreign_use(c)
    \/ \E t \in Threads : unwind(t)

SpecMisuse == Init /\ [][NextMisuse]_vars

\* C17: enter_rcs aborts exactly when the counter was odd and leave_rcs exactly when
\* it was even, and an assertion fails only on a counter that was used by more than
\* one thread
C17_ParityAssertions ==
    /\ [][\A t \in Threads :
              /\ (pc[t] = "enter_rcs" /\ pc'[t] # pc[t]) =>
                     ((pc'[t] = "panicked") <=> (epoch[t] % 2 = 1))
              /\ (pc[t] = "leave_rcs" /\ pc'[t] # pc[t]) =>
                     ((pc'[t] = "panicked") <=> (epoch[t] % 2 = 0))]_vars
    /\ [](\A t \in Threads : pc[t] = "panicked" => shared[t])

\* one thread was aborted by enter_rcs and another by leave_rcs
C17_Witness ==
    \E t \in Threads, u \in Threads :
        /\ pc[t] = "panicked" /\ epoch[t] % 2 = 0
        /\ pc[u] = "panicked" /\ epoch[u] % 2 = 1

\* C18: while the Slot exists its pointer is a live payload whose strong count is at
\* least one, one of these counts being the Slot's own; every swap and every
\* successful compare-exchange gives the Slot the one count of the new payload and
\* hands the Slot's count of the old payload to the operation that displaced it
C18_SlotOwnsOneCount ==
    /\ [](slot_alive =>
             /\ active_value \in 1..nalloc
             /\ strong[active_value] >= 1
             /\ drops[active_value] = 0
             /\ <<0, "slot">> \in Owners(active_value)
             /\ strong[active_value] = Cardinality(Owners(active_value)))
    /\ [][\A o \in Payloads, n \in Payloads :
              (active_value = o /\ active_value' = n /\ n # o) =>
                  /\ strong[n] = 0
                  /\ strong'[n] = 1
                  /\ Owners(n)' = {<<0, "slot">>}
                  /\ <<0, "slot">> \notin Owners(o)'
                  /\ strong'[o] = Cardinality(Owners(o)')
                  /\ \E t \in Threads :
                         \/ arc[t] # o /\ arc'[t] = o /\ displaced' = displaced
                         \/ displaced[t] # o /\ displaced'[t] = o /\ arc' = arc]_vars

\* a writer has just swapped while a reader holds the displaced payload: the Slot
\* has the only count of the new payload, the writer and the reader one each of the old
C18_Witness ==
    \E w \in Threads, r \in Threads :
        /\ slot_alive
        /\ pc[w] = "wait_for_epochs"
        /\ active_value = new[w]
        /\ strong[active_value] = 1
        /\ held[r] = arc[w]
        /\ strong[arc[w]] = 2
        /\ Len(history) = 3

\* C19: when a writer has sampled a counter at an odd value and a later look at it
\* shows a different value, the counter's owner has run leave_rcs at least once
\* since that sample
C19_ChangeMeansLeft ==
    \A w \in Threads, c \in Threads :
        <<c, "changed">> \in witnessed[w] =>
            \E n \in 0..leaves[c] : <<c, "odd", n>> \in witnessed[w] /\ leaves[c] > n

\* a writer sampled the reader's counter at 1 and found it changed; the reader is
\* by now inside its next critical section
C19_Witness ==
    \E w \in Threads, c \in Threads :
        /\ <<c, "changed">> \in witnessed[w]
        /\ <<c, "odd", 0>> \in witnessed[w]
        /\ epoch[c] = 3
        /\ leaves[c] = 1

\* C20: the compare-exchange of a try_update iteration succeeds exactly when the
\* Slot still holds the payload this iteration's raw_read returned; it fails only
\* when another write has replaced that payload since, and then changes nothing
C20_CasIffUnchanged ==
    [][\A t \in Threads :
           (/\ pc[t] = "update"
            /\ apply_update(update[t], value[arc_ptr[t]]) # None
            /\ pc'[t] # pc[t]) =>
               /\ (active_value' # active_value) <=> (active_value = arc_ptr[t])
               /\ active_value = arc_ptr[t] =>
                      /\ history' = Append(history, active_value')
                      /\ value'[active_value'] =
                             apply_update(update[t], value[arc_ptr[t]])[1]
                      /\ arc'[t] = arc_ptr[t] \/ displaced'[t] = arc_ptr[t]
               /\ active_value # arc_ptr[t] =>
                      /\ arc_ptr[t] \in Superseded
                      /\ history' = history
                      /\ pc'[t] \in {"drop_old", "rw_read"}]_vars

\* two updates read the same payload: one has displaced it and waits for readers,
\* the other's compare-exchange has failed and it is about to start over
C20_Witness ==
    \E t \in Threads, u \in Threads :
        /\ pc[t] = "drop_old"
        /\ op[t] = "update"
        /\ pc[u] = "wait_for_epochs"
        /\ op[u] = "update"
        /\ arc[u] = arc_ptr[t]
        /\ active_value = new[u]

\* C21: a successful raw_try_update is an atomic read-modify-write: the pointer it
\* exchanged is the one its last raw_read returned (the assert_eq holds), the payload
\* it installed is what update returned for that payload, and the payload it returns
\* as displaced is the very payload update was called with
C21_UpdateIsReadModifyWrite ==
    /\ [](\A t \in Threads :
             (op[t] = "update" /\ pc[t] \in {"wait_for_epochs", "sample", "retain", "into_inner"}) =>
                 /\ arc[t] = arc_ptr[t]
                 /\ \E i \in 1..(Len(history) - 1) :
                        history[i] = arc_ptr[t] /\ history[i + 1] = new[t]
                 /\ Some(value[new[t]]) = apply_update(update[t], value[arc_ptr[t]]))
    /\ [][\A t \in Threads :
              /\ (op[t] = "update" /\ pc[t] = "into_inner" /\ pc'[t] # pc[t]) =>
                     /\ displaced'[t] = arc_ptr[t]
                     /\ returned' = returned \cup {[new |-> new[t], old |-> arc_ptr[t]]}
              /\ (impl = "rwlock" /\ pc[t] = "update" /\ pc'[t] = "idle" /\
                  active_value' # active_value) =>
                     /\ displaced'[t] = arc_ptr[t]
                     /\ history' = Append(history, active_value')
                     /\ history[Len(history)] = arc_ptr[t]
                     /\ returned' = returned \cup {[new |-> active_value', old |-> arc_ptr[t]]}
                     /\ Some(value'[active_value']) =
                            apply_update(update[t], value[arc_ptr[t]])]_vars

\* an update that had to start over has returned: it displaced the payload a
\* concurrent write had installed, and installed that payload's value plus one
C21_Witness ==
    \E t \in Threads :
        /\ pc[t] = "idle"
        /\ Len(history) = 3
        /\ displaced[t] = history[2]
        /\ value[history[3]] = value[history[2]] + 1
        /\ [new |-> history[3], old |-> history[2]] \in returned
        /\ \E q \in Payloads : q \notin {history[i] : i \in 1..3} /\ drops[q] = 1

\* the payloads that were constructed as candidates and never installed
Candidates == {p \in 1..nalloc : \A i \in 1..Len(history) : history[i] # p}

\* C22: on a failed compare-exchange the atomic Slot's raw_try_update releases the
\* candidate's strong count exactly once, then the count it held on the payload it
\* read, leaves the Slot's pointer as it is, and starts over without running
\* wait_for_epochs: none of these steps waits for a reader
C22_FailedCasReleasesAndRetries ==
    /\ [](\A p \in Candidates : strong[p] = 0 /\ drops[p] = 1)
    /\ [](\A t \in Threads : pc[t] = "drop_old" => ENABLED <<drop_old(t)>>_vars)
    /\ [][\A t \in Threads :
              /\ (impl = "atomic" /\ pc[t] = "update" /\ pc'[t] # pc[t] /\
                  apply_update(update[t], value[arc_ptr[t]]) # None /\
                  active_value # arc_ptr[t]) =>
                     /\ pc'[t] = "drop_old"
                     /\ active_value' = active_value
                     /\ history' = history
                     /\ nalloc' = nalloc + 1
                     /\ strong' = strong
                     /\ drops' = [drops EXCEPT ![nalloc + 1] = 1]
                     /\ arc_ptr'[t] = arc_ptr[t]
                     /\ UNCHANGED <<scan_vars, returned, epoch>>
              /\ (pc[t] = "drop_old" /\ pc'[t] # pc[t]) =>
                     /\ pc'[t] = "enter_rcs"
                     /\ strong[arc_ptr[t]] >= 1
                     /\ strong' = [strong EXCEPT ![arc_ptr[t]] = @ - 1]
                     /\ active_value' = active_value
                     /\ history' = history
                     /\ UNCHANGED <<scan_vars, returned, nalloc, epoch>>]_vars

\* an update whose compare-exchange failed is about to read again: its candidate is
\* gone, the payload it had read has been freed meanwhile, and it took no snapshot
C22_Witness ==
    \E t \in Threads :
        /\ op[t] = "update"
        /\ pc[t] = "enter_rcs"
        /\ arc_ptr[t] = NoPayload
        /\ snapshot[t] = <<>>
        /\ \E q \in Candidates : value[q] = 1
        /\ strong[history[1]] = 0
        /\ drops[history[1]] = 1

\* the counters the scan of writer w still waits for
WaitList(w) == {epochs[w][i][2] : i \in 1..Len(epochs[w])}

\* C26: a counter that is even at the first sample of wait_for_epochs is dropped from
\* the scan and not looked at again, whatever its owner does meanwhile; when no
\* counter was kept the while loop is not entered
C26_EvenIsDiscarded ==
    /\ [](\A w \in Threads, c \in Threads :
             <<c, "even">> \in witnessed[w] => c \notin WaitList(w))
    /\ [][\A w \in Threads :
              /\ (pc[w] = "sample" /\ pc'[w] # pc[w]) =>
                     (pc'[w] = "into_inner") <=>
                         (\A i \in 1..Len(snapshot[w]) :
                              \/ <<snapshot[w][i], "even">> \in witnessed'[w]
                              \/ <<snapshot[w][i], "dead">> \in witnessed'[w])
              /\ (pc[w] = "retain" /\ witnessed'[w] # witnessed[w]) =>
                     \A o \in witnessed'[w] \ witnessed[w] : o[1] \in WaitList(w)
              /\ (pc[w] = "retain" /\ epochs'[w] # epochs[w]) =>
                     WaitList(w)' \subseteq WaitList(w)]_vars

\* a scan is over although a counter it had sampled even has become odd meanwhile:
\* its owner has loaded the new pointer inside a new read critical section
C26_Witness ==
    \E w \in Threads, c \in Threads :
        /\ pc[w] = "into_inner"
        /\ <<c, "even">> \in witnessed[w]
        /\ pc[c] = "increment_strong_count"
        /\ epoch[c] % 2 = 1
        /\ arc_ptr[c] = new[w]

\* C27: a counter whose Weak no longer upgrades counts as quiescent: at the first
\* sample it is not put on the wait list, at a later look it is taken off the list
\* even when it still shows the odd value that was sampled, and a scan is never held
\* up by it
C27_DeadIsQuiescent ==
    /\ [](\A w \in Threads, c \in Threads :
             <<c, "dead">> \in witnessed[w] => c \notin WaitList(w))
    /\ [](\A w \in Threads :
             (pc[w] = "retain" /\ ~alive[epochs[w][idx[w]][2]]) => ENABLED <<retain(w)>>_vars)
    /\ [][\A w \in Threads :
              /\ (pc[w] = "sample" /\ (pc'[w] # pc[w] \/ idx'[w] # idx[w]) /\
                  ~alive[snapshot[w][idx[w]]]) =>
                     /\ epochs'[w] = epochs[w]
                     /\ witnessed'[w] = witnessed[w] \cup {<<snapshot[w][idx[w]], "dead">>}
              /\ (pc[w] = "retain" /\ <<pc'[w], idx'[w], epochs'[w]>> # <<pc[w], idx[w], epochs[w]>> /\
                  ~alive[epochs[w][idx[w]][2]]) =>
                     /\ WaitList(w)' = WaitList(w) \ {epochs[w][idx[w]][2]}
                     /\ <<epochs[w][idx[w]][2], "dead">> \in witnessed'[w]]_vars

\* a scan is over that had sampled a counter odd and later found it dead, the counter
\* still showing an odd value
C27_Witness ==
    \E w \in Threads, c \in Threads :
        /\ pc[w] = "into_inner"
        /\ <<c, "dead">> \in witnessed[w]
        /\ \E n \in 0..leaves[c] : <<c, "odd", n>> \in witnessed[w]
        /\ epoch[c] % 2 = 1
        /\ ~alive[c]

\* C29: while the Slot exists the strong count of every payload is the number of its
\* owners (the Slot, the Arcs readers got, the displaced Arcs of writers and their
\* callers, the `old` of a running raw_try_update); a payload is destroyed once,
\* exactly when its last owner is gone, no step releases a count nobody owns and
\* no step changes a count by more than one
C29_StrongCountConservation ==
    /\ [](slot_alive =>
             /\ ~ub
             /\ \A p \in Payloads :
                    /\ strong[p] = Cardinality(Owners(p))
                    /\ drops[p] = (IF p <= nalloc /\ strong[p] = 0 THEN 1 ELSE 0))
    /\ [][slot_alive =>
              \A p \in Payloads :
                  /\ strong'[p] \in {strong[p] - 1, strong[p], strong[p] + 1}
                  /\ strong'[p] < strong[p] => strong[p] >= 1
                  /\ (strong[p] = 0 /\ p <= nalloc) => strong'[p] = 0]_vars

\* a payload with three owners that is no longer in the Slot: the ManuallyDrop and
\* the `old` of the update that displaced it, and the Arc a reader got before
C29_Witness ==
    \E w \in Threads, r \in Threads :
        /\ slot_alive
        /\ op[w] = "update"
        /\ pc[w] = "retain"
        /\ arc[w] = arc_ptr[w]
        /\ held[r] = arc[w]
        /\ strong[arc[w]] = 3
        /\ active_value = new[w]

\* ---- an allocator that reuses the addresses of freed payloads --------------------------

SpecAddr == InitAddr /\ [][Next]_vars

\* C30: raw_try_update owns a strong count of the payload it read until after the
\* compare-exchange, so that payload is live and no other live payload has its
\* address; a compare-exchange (or ptr_eq) that succeeds has therefore found in the
\* Slot the very payload that was read, and one that fails has found another
C30_NoABA ==
    /\ [](~ub)
    /\ [](\A t \in Threads :
             pc[t] \in {"update", "drop_old"} =>
                 /\ strong[arc_ptr[t]] >= 1
                 /\ <<t, "old">> \in Owners(arc_ptr[t])
                 /\ \A q \in 1..nalloc :
                        (q # arc_ptr[t] /\ strong[q] > 0) => addr[q] # addr[arc_ptr[t]])
    /\ [][\A t \in Threads :
              (/\ pc[t] = "update"
               /\ pc'[t] # pc[t]
               /\ apply_update(update[t], value[arc_ptr[t]]) # None) =>
                  /\ (active_value' # active_value) <=> (active_value = arc_ptr[t])
                  /\ (active_value' # active_value) =>
                         arc'[t] = arc_ptr[t] \/ displaced'[t] = arc_ptr[t]]_vars

\* an update has exchanged a payload that lives at the address of a freed one
C30_Witness ==
    \E t \in Threads, p \in Payloads :
        /\ op[t] = "update"
        /\ pc[t] = "wait_for_epochs"
        /\ p # arc[t]
        /\ p <= nalloc
        /\ addr[p] = addr[arc[t]]
        /\ strong[p] = 0
        /\ arc[t] = arc_ptr[t]

\* ---- one thread reads in a loop while another replaces once, on the atomic Slot --------

Reader == 1
Writer == NThreads

InitWrap == Init /\ impl = "atomic"

\* loop { let arc = rcu.raw_read(&epoch_counter); drop(arc) }; no iteration begins
\* while the writer is between its swap and the end of its first pass over the pool
loop_read ==
    /\ pc[Writer] \notin {"wait_for_epochs", "sample"}
    /\ raw_read(Reader)
    /\ UNCHANGED nops

loop_drop == drop_held(Reader)

\* rcu.raw_replace(Arc::new(v), ..), called once, during the first iteration of the reader
one_replace(v) == nalloc = 1 /\ leaves[Reader] = 0 /\ raw_replace(Writer, v) /\ UNCHANGED nops

write_step ==
    \/ wait_for_epochs(Writer)
    \/ sample(Writer)
    \/ retain(Writer)
    \/ into_inner(Writer)

NextWrap ==
    \/ loop_read
    \/ read_step(Reader)
    \/ loop_drop
    \/ \E v \in ReplaceValues : one_replace(v)
    \/ write_step
    \/ drop_displaced(Writer)

\* both threads are scheduled fairly; a reader inside raw_read gets to leave_rcs
SpecWrap ==
    /\ InitWrap
    /\ [][NextWrap]_vars
    /\ WF_vars(read_step(Reader))
    /\ WF_vars(write_step)

\* C23: whenever the scan of a writer looks again at a counter it has sampled odd and
\* the counter shows the sampled value, the counter's owner has not run leave_rcs
\* since the sample
C23_SameOddMeansNotLeft ==
    \A w \in Threads :
        pc[w] = "retain" =>
            \A i \in 1..Len(epochs[w]) :
                (upgrade(epochs[w][i][2]) /\ get_epoch(epochs[w][i][2]) = epochs[w][i][1]) =>
                    <<epochs[w][i][2], "odd", leaves[epochs[w][i][2]]>> \in witnessed[w]

\* C24: when readers that enter the read critical section always leave it again and
\* every thread keeps being scheduled, a writer that has exchanged the pointer gets
\* out of wait_for_epochs
C24_WriterReturns ==
    \A w \in Threads : (pc[w] = "wait_for_epochs") ~> (pc[w] = "into_inner")

\* ---- the safe calls: thread-local counters and the global registry (arcu.rs) ------------

\* no counter exists yet; the Slot is the atomic one
InitRegistry == Constructed /\ reuse = FALSE /\ registry = <<>> /\ impl = "atomic"

\* rcu.read(): with_thread_local_epoch_counter(|epoch_counter| self.raw_read(epoch_counter));
\* get_or_init runs its closure only when the thread has no counter yet
safe_read(t) ==
    /\ nops < MaxOps
    /\ nops' = nops + 1
    /\ Idle(t)
    /\ held[t] = NoPayload
    /\ pc' = [pc EXCEPT ![t] = IF registered(t) THEN raw_read_entry ELSE "register"]
    /\ op' = [op EXCEPT ![t] = "read"]
    /\ UNCHANGED <<ref_vars, slot_vars, active_value, heap_vars, counter_vars, update, arc_ptr, new,
                   arc, scan_vars, caller_vars, log_vars, rcs_vars, latest>>

\* rcu.try_update(f): with_thread_local_epoch_counter(|epoch_counter|
\* self.raw_try_update(f, epoch_counter, global_counters))
safe_try_update(t, f) ==
    /\ nops < MaxOps
    /\ nops' = nops + 1
    /\ Idle(t)
    /\ displaced[t] = NoPayload
    /\ pc' = [pc EXCEPT ![t] = IF registered(t) THEN raw_read_entry ELSE "register"]
    /\ op' = [op EXCEPT ![t] = "update"]
    /\ update' = [update EXCEPT ![t] = f]
    /\ UNCHANGED <<ref_vars, slot_vars, active_value, heap_vars, counter_vars, arc_ptr, new,
                   arc, scan_vars, caller_vars, log_vars, rcs_vars, latest>>

\* rcu.replace(v): raw_replace_arc(Arc::new(v), global_counters); the writer needs
\* no counter of its own
safe_replace(t, v) ==
    /\ nops < MaxOps
    /\ nops' = nops + 1
    /\ raw_replace(t, v)

\* the closure of get_or_init: Arc::new(EpochCounter::new()), then
\* register_epoch_counter: GLOBAL_EPOCH_COUNTERS.write().unwrap().push(weak)
register(t) ==
    /\ pc[t] = "register"
    /\ registry' = Append(registry, t)
    /\ pc' = [pc EXCEPT ![t] = raw_read_entry]
    /\ UNCHANGED <<ref_vars, impl, slot_alive, reuse, active_value, heap_vars, counter_vars, op, update,
                   arc_ptr, new, arc, scan_vars, caller_vars, nops, log_vars, rcs_vars, latest>>

\* a step inside a safe call that has begun
step_safe(t) ==
    \/ register(t)
    \/ enter_rcs(t)
    \/ load(t)
    \/ increment_strong_count(t)
    \/ leave_rcs(t)
    \/ wait_for_epochs(t)
    \/ sample(t)
    \/ retain(t)
    \/ into_inner(t)
    \/ abort(t)
    \/ compare_exchange(t)
    \/ drop_old(t)

NextRegistry ==
    \/ \E t \in Threads : safe_read(t)
    \/ \E t \in Threads, v \in ReplaceValues : safe_replace(t, v)
    \/ \E t \in Threads, f \in UpdateFns : safe_try_update(t, f)
    \/ \E t \in Threads : step_safe(t)
    \/ \E t \in Threads : drop_held(t)
    \/ \E t \in Threads : drop_displaced(t)
    \/ \E t \in Threads : thread_exit(t)
    \/ drop_slot

SpecRegistry == InitRegistry /\ [][NextRegistry]_vars

\* the counter of thread t is an entry of the registry
InRegistry(t) == \E i \in 1..Len(registry) : registry[i] = t

\* the counters in the pool snapshot of writer w
Scanned(w) == {snapshot[w][i] : i \in 1..Len(snapshot[w])}

\* C25: the pool is read after the pointer was exchanged, so a thread whose counter
\* is not in a writer's snapshot (it registered later, or not yet) never gets the
\* payload that writer displaced: neither as the pointer it has loaded nor as an Arc
\* that a read returned to it; and no freed payload's count is touched
C25_LateRegistrationIsSafe ==
    /\ ~ub
    /\ \A w \in Threads : pc[w] \in {"wait_for_epochs", "sample", "retain", "into_inner"} =>
           \A r \in Threads :
               (IF pc[w] = "wait_for_epochs" THEN ~InRegistry(r) ELSE r \notin Scanned(w)) =>
                   /\ arc_ptr[r] # arc[w] \/ r = w
                   /\ held[r] # arc[w]

\* a scan is under way whose snapshot lacks the counter of a reader; that reader has
\* registered since and is inside its critical section with the new payload's pointer
C25_Witness ==
    \E w \in Threads, r \in Threads :
        /\ pc[w] \in {"sample", "retain"}
        /\ r \notin Scanned(w)
        /\ InRegistry(r)
        /\ pc[r] = "increment_strong_count"
        /\ arc_ptr[r] = new[w]
        /\ epoch[r] = 1

\* C28: a thread registers one counter, in its first read or try_update and before
\* its first enter_rcs; its later calls add nothing; entries of the registry are never
\* removed or reordered, also not when their thread has ended
C28_RegisteredOnce ==
    /\ [](\A i \in 1..Len(registry), j \in 1..Len(registry) :
             registry[i] = registry[j] => i = j)
    /\ [](\A t \in Threads :
             (pc[t] \in ReadPcs \/ epoch[t] # 0) => InRegistry(t))
    /\ [][\/ registry' = registry
          \/ \E t \in Threads :
                 /\ pc[t] = "register"
                 /\ op[t] \in {"read", "update"}
                 /\ epoch[t] = 0
                 /\ ~InRegistry(t)
                 /\ registry' = Append(registry, t)
                 /\ pc'[t] = "enter_rcs"]_vars
    /\ [][\A t \in Threads :
              (pc[t] = "idle" /\ pc'[t] = "register") => ~InRegistry(t)]_vars

\* every thread has registered; one is inside its second read critical section and
\* the entry of a thread that has ended is still in the registry
C28_Witness ==
    \E t \in Threads, u \in Threads :
        /\ Len(registry) = NThreads
        /\ epoch[t] = 3
        /\ pc[t] = "load"
        /\ ~alive[u]
        /\ InRegistry(u)

\* C35: the counter wraps from EpochModulus - 1, which is odd, to 0 in leave_rcs; after
\* any number of read critical sections it is odd inside raw_read and even outside,
\* and neither parity assertion fails
C35_ParitySurvivesWrap ==
    /\ [](\A t \in Threads :
             /\ (epoch[t] % 2 = 1) <=> (t \in InRcs)
             /\ epoch[t] \in 0..(EpochModulus - 1)
             /\ pc[t] # "panicked")
    /\ [][\A t \in Threads :
              epoch'[t] # epoch[t] =>
                  /\ epoch'[t] = IF epoch[t] = EpochModulus - 1 THEN 0 ELSE epoch[t] + 1
                  /\ pc[t] = (IF epoch[t] % 2 = 0 THEN "enter_rcs" ELSE "leave_rcs")
                  /\ pc'[t] = (IF epoch[t] % 2 = 0 THEN "load" ELSE "idle")]_vars

\* the reader is inside the critical section after the one in which its counter
\* wrapped to 0
C35_Witness ==
    /\ leaves[Reader] = EpochModulus \div 2
    /\ epoch[Reader] = 1
    /\ pc[Reader] = "increment_strong_count"

\* the positions of raw_try_update after its inner raw_read has returned `old`
AfterInnerRead == {"update", "drop_old", "wait_for_epochs", "sample", "retain", "into_inner"}

\* C31: inside raw_try_update the caller's counter is odd only inside the inner
\* raw_read; it is even when the update function is applied, so an enter_rcs made
\* there passes its assertion, and through all of wait_for_epochs, so the writer
\* samples its own counter even and never keeps it in its scan
C31_OwnCounterEvenOutsideInnerRead ==
    /\ [](\A t \in Threads :
             /\ pc[t] \in AfterInnerRead => epoch[t] % 2 = 0
             /\ (op[t] = "update" /\ epoch[t] % 2 = 1) =>
                    pc[t] \in {"load", "increment_strong_count", "leave_rcs"}
             /\ \A i \in 1..Len(epochs[t]) : epochs[t][i][2] # t
             /\ \A o \in witnessed[t] : o[1] = t => o[2] = "even")
    /\ [][\A t \in Threads :
              (op[t] = "update" /\ pc[t] \in AfterInnerRead) => epoch'[t] = epoch[t]]_vars

\* a raw_try_update that has been through two inner raw_reads has exchanged the
\* pointer and sampled its own counter, which showed the even value 4
C31_Witness ==
    \E t \in Threads :
        /\ op[t] = "update"
        /\ pc[t] \in {"sample", "retain", "into_inner"}
        /\ epoch[t] = 4
        /\ <<t, "even">> \in witnessed[t]

\* ---- Arcu::raw_try_update as written in arcu.rs -----------------------------------------

\* the Slot of arcu.rs is the atomic pointer
InitArcu == Init /\ impl = "atomic"

\* rcu.raw_try_update(f, &epoch_counter, get_epoch_counters) of arcu.rs, called with
\* the thread's own counter
arcu_raw_try_update(t, f) ==
    /\ nops < MaxOps
    /\ nops' = nops + 1
    /\ Idle(t)
    /\ displaced[t] = NoPayload
    /\ pc' = [pc EXCEPT ![t] = raw_read_entry]
    /\ op' = [op EXCEPT ![t] = "arcu_update"]
    /\ update' = [update EXCEPT ![t] = f]
    /\ UNCHANGED <<ref_vars, slot_vars, active_value, heap_vars, counter_vars, arc_ptr, new,
                   arc, scan_vars, caller_vars, log_vars, rcs_vars, latest>>

\* let new = update(&old)?; self.active_value.compare_exchange(old, new, AcqRel, Acquire)
arcu_compare_exchange(t) ==
    /\ pc[t] = "update"
    /\ op[t] = "arcu_update"
    /\ apply_update(update[t], value[arc_ptr[t]]) # None
    /\ Fresh \in Payloads
    /\ value' = [value EXCEPT ![Fresh] = apply_update(update[t], value[arc_ptr[t]])[1]]
    /\ nalloc' = Fresh
    /\ \E a \in AllocAddrs : addr' = [addr EXCEPT ![Fresh] = a]
    /\ strong' = [strong EXCEPT ![Fresh] = 1]
    /\ new' = [new EXCEPT ![t] = Fresh]
    /\ IF cas_succeeds(t)
       THEN /\ arc' = [arc EXCEPT ![t] = active_value]
            /\ active_value' = Fresh
            /\ history' = Append(history, Fresh)
            /\ in_rcs_at_swap' = [in_rcs_at_swap EXCEPT ![t] = InRcs]
            /\ left_rcs' = [left_rcs EXCEPT ![t] = {}]
            /\ latest' = [r \in Threads |-> FALSE]
       ELSE UNCHANGED <<arc, active_value, history, rcs_vars, latest>>
    /\ pc' = [pc EXCEPT ![t] = "decrement_old"]
    /\ UNCHANGED <<ref_vars, slot_vars, drops, ub, counter_vars, op, update, arc_ptr, scan_vars,
                   caller_vars, nops, returned, witnessed>>

\* an Err branch that releases the candidate at once, as the one of atomic.rs does
after_failed_cas_release == "into_inner"

\* where the Err branch of the match goes first: wait_for_epochs(&mut get_epoch_counters)
after_failed_cas == "wait_for_epochs"

\* Arc::decrement_strong_count(old), whatever the compare_exchange returned; then the
\* match: Ok goes on to ManuallyDrop::new and wait_for_epochs, Err to wait_for_epochs
arcu_decrement_old(t) ==
    /\ pc[t] = "decrement_old"
    /\ strong' = [strong EXCEPT ![arc_ptr[t]] = DecOutcome(arc_ptr[t])]
    /\ drops' = [drops EXCEPT ![arc_ptr[t]] = DropsAfterDec(arc_ptr[t])]
    /\ ub' = (ub \/ strong[arc_ptr[t]] = 0)
    /\ arc_ptr' = [arc_ptr EXCEPT ![t] = NoPayload]
    /\ pc' = [pc EXCEPT ![t] = IF arc[t] # NoPayload THEN "wait_for_epochs"
                               ELSE after_failed_cas]
    /\ UNCHANGED <<ref_vars, slot_vars, active_value, value, nalloc, addr, counter_vars, op, update,
                   new, arc, scan_vars, caller_vars, nops, log_vars, rcs_vars, latest>>

\* Ok branch: return Some(ManuallyDrop::into_inner(arc))
arcu_into_inner(t) ==
    /\ arc[t] # NoPayload
    /\ into_inner(t)

\* Err branch, after wait_for_epochs: Arc::decrement_strong_count(new); continue
arcu_decrement_new(t) ==
    /\ pc[t] = "into_inner"
    /\ op[t] = "arcu_update"
    /\ arc[t] = NoPayload
    /\ strong' = [strong EXCEPT ![new[t]] = DecOutcome(new[t])]
    /\ drops' = [drops EXCEPT ![new[t]] = DropsAfterDec(new[t])]
    /\ ub' = (ub \/ strong[new[t]] = 0)
    /\ new' = [new EXCEPT ![t] = NoPayload]
    /\ snapshot' = [snapshot EXCEPT ![t] = <<>>]
    /\ idx' = [idx EXCEPT ![t] = 0]
    /\ witnessed' = [witnessed EXCEPT ![t] = {}]
    /\ pc' = [pc EXCEPT ![t] = raw_read_entry]
    /\ UNCHANGED <<ref_vars, slot_vars, active_value, value, nalloc, addr, counter_vars, op, update,
                   arc_ptr, arc, epochs, caller_vars, nops, history, returned, rcs_vars,
                   latest>>

\* a step inside an operation on the Slot of arcu.rs
step_arcu(t) ==
    \/ enter_rcs(t)
    \/ load(t)
    \/ increment_strong_count(t)
    \/ leave_rcs(t)
    \/ abort(t)
    \/ arcu_compare_exchange(t)
    \/ arcu_decrement_old(t)
    \/ wait_for_epochs(t)
    \/ sample(t)
    \/ retain(t)
    \/ arcu_into_inner(t)
    \/ arcu_decrement_new(t)

NextArcu ==
    \/ \E t \in Threads : read(t)
    \/ \E t \in Threads, v \in ReplaceValues : safe_replace(t, v)
    \/ \E t \in Threads, f \in UpdateFns : arcu_raw_try_update(t, f)
    \/ \E t \in Threads : step_arcu(t)
    \/ \E t \in Threads : drop_held(t)
    \/ \E t \in Threads : drop_displaced(t)

SpecArcu == InitArcu /\ [][NextArcu]_vars

\* the compare_exchange of w's current attempt failed and the candidate is not yet released
FailedAttempt(w) ==
    /\ op[w] = "arcu_update"
    /\ new[w] # NoPayload
    /\ arc[w] = NoPayload
    /\ pc[w] \in {"wait_for_epochs", "sample", "retain", "into_inner"}

\* C36: in raw_try_update of arcu.rs the candidate of a failed compare_exchange keeps
\* its strong count through a wait_for_epochs that has seen every counter even, dead
\* or changed, only then is it released and the loop restarted; while a counter
\* sampled odd keeps its value the failed attempt stays in the retain loop
C36_FailedCasWaitsInArcuRs ==
    /\ [](\A w \in Threads : FailedAttempt(w) =>
             /\ strong[new[w]] = 1
             /\ drops[new[w]] = 0)
    /\ [][\A w \in Threads :
              (op[w] = "arcu_update" /\ arc[w] = NoPayload /\ new[w] # NoPayload
               /\ new'[w] = NoPayload) =>
                  /\ pc[w] = "into_inner"
                  /\ pc'[w] = "enter_rcs"
                  /\ strong'[new[w]] = 0
                  /\ drops'[new[w]] = 1
                  /\ snapshot[w] = Pool
                  /\ \A c \in Threads : \E o \in witnessed[w] :
                         o[1] = c /\ o[2] \in {"even", "dead", "changed"}]_vars
    /\ [][\A w \in Threads : (FailedAttempt(w) /\ pc[w] = "retain") =>
              \A i \in 1..Len(epochs[w]) :
                  (alive[epochs[w][i][2]] /\ epoch[epochs[w][i][2]] = epochs[w][i][1])
                  => /\ pc'[w] = "retain"
                     /\ new'[w] = new[w]
                     /\ strong'[new[w]] = 1]_vars

\* a writer whose compare_exchange failed is in the retain loop for a reader that is
\* inside a read critical section, with its candidate still allocated
C36_Witness ==
    \E w \in Threads, r \in Threads :
        /\ FailedAttempt(w)
        /\ pc[w] = "retain"
        /\ pc[r] = "increment_strong_count"
        /\ epochs[w] = <<<<epoch[r], r>>>>
        /\ strong[new[w]] = 1

\* ---- RcuRef (rcu_ref.rs) ----------------------------------------------------------------

\* RcuRef::new(arc): data: arc.as_ref().into(); a pointer is the address of the
\* allocation and the offset into it
new_ref(a) == [arc |-> a, data |-> <<addr[a], 0>>]

\* f(unsafe { reference.data.as_ref() }): the reference the closure returns
project(f, data) == IF f = "field" THEN <<data[1], data[2] + 1>> ELSE data

\* a map that takes the root from the Slot, not from the RcuRef it was given
map_rerooted(reference, f) ==
    [arc |-> active_value, data |-> project(f, <<addr[active_value], 0>>)]

\* RcuRef::map(reference, f): RcuRef { arc: reference.arc, data: f(..).into() }
map(reference, f) == [arc |-> reference.arc, data |-> project(f, reference.data)]

\* RcuRef::try_map(reference, f): let val = f(..)?;
\* Some(RcuRef { arc: Arc::clone(&reference.arc), data: val.into() })
try_map(reference, f) ==
    IF f = "none" THEN None
    ELSE Some([arc |-> reference.arc, data |-> project(f, reference.data)])

\* RcuRef::same_epoch(this, other): Arc::ptr_eq(&this.arc, &other.arc)
same_epoch(this, other) == addr[this.arc] = addr[other.arc]

\* RcuRef::ptr_eq(this, other): core::ptr::eq(this.data.as_ptr(), other.data.as_ptr())
data_ptr_eq(this, other) == this.data = other.data

\* RcuRef::clone(this): Self { arc: Arc::clone(&this.arc), data: this.data }
clone(this) == [arc |-> this.arc, data |-> this.data]

\* the places that hold an RcuRef
Live == {i \in Places : refs[i] # NoRef}

\* the read of arcu.rs wraps the Arc of raw_read: RcuRef { data: arc.deref().into(), arc }
call_new(t, i) ==
    /\ held[t] # NoPayload
    /\ i \notin Live
    /\ refs' = [refs EXCEPT ![i] = new_ref(held[t])]
    /\ held' = [held EXCEPT ![t] = NoPayload]
    /\ UNCHANGED <<outcome, slot_vars, active_value, heap_vars, counter_vars, pc, op, update,
                   arc_ptr, new, arc, scan_vars, displaced, nops, log_vars, rcs_vars, latest>>

\* RcuRef::map(reference, f); the Arc moves into the result
call_map(i, f) ==
    /\ i \in Live
    /\ outcome.n < MaxCalls
    /\ project(f, refs[i].data)[2] <= MaxDepth
    /\ refs' = [refs EXCEPT ![i] = map(refs[i], f)]
    /\ outcome' = [n |-> outcome.n + 1, fn |-> "map", this |-> i, into |-> i]
    /\ UNCHANGED <<slot_vars, active_value, heap_vars, counter_vars, pc, op, update,
                   arc_ptr, new, arc, scan_vars, caller_vars, nops, log_vars, rcs_vars,
                   latest>>

\* a try_map that hands the RcuRef back when the closure returns None
call_try_map_restores(i, f) ==
    /\ i \in Live
    /\ outcome.n < MaxCalls
    /\ project(f, refs[i].data)[2] <= MaxDepth
    /\ refs' = [refs EXCEPT ![i] = IF try_map(refs[i], f) = None THEN @
                                   ELSE try_map(refs[i], f)[1]]
    /\ outcome' = [n |-> outcome.n + 1, fn |-> "try_map", this |-> i,
                   into |-> IF try_map(refs[i], f) = None THEN 0 ELSE i]
    /\ UNCHANGED <<slot_vars, active_value, heap_vars, counter_vars, pc, op, update,
                   arc_ptr, new, arc, scan_vars, caller_vars, nops, log_vars, rcs_vars,
                   latest>>

\* RcuRef::try_map(reference, f): on Some the Arc is cloned into the result; in both
\* cases `reference`, which was moved into the call, is dropped when it returns
call_try_map(i, f) ==
    /\ i \in Live
    /\ outcome.n < MaxCalls
    /\ project(f, refs[i].data)[2] <= MaxDepth
    /\ LET r == try_map(refs[i], f)
           p == refs[i].arc
       IN  /\ refs' = [refs EXCEPT ![i] = IF r = None THEN NoRef ELSE r[1]]
           /\ outcome' = [n |-> outcome.n + 1, fn |-> "try_map", this |-> i,
                          into |-> IF r = None THEN 0 ELSE i]
           /\ IF r = None
              THEN /\ strong' = [strong EXCEPT ![p] = DecOutcome(p)]
                   /\ drops' = [drops EXCEPT ![p] = DropsAfterDec(p)]
                   /\ ub' = (ub \/ strong[p] = 0)
              ELSE \* Arc::clone adds one strong count, the drop of `reference` takes one
                   /\ strong' = [strong EXCEPT ![p] = (@ + 1) - 1]
                   /\ UNCHANGED <<drops, ub>>
    /\ UNCHANGED <<slot_vars, active_value, value, nalloc, addr, counter_vars, pc, op, update,
                   arc_ptr, new, arc, scan_vars, caller_vars, nops, log_vars, rcs_vars,
                   latest>>

\* RcuRef::clone(&this), the result is kept in place j
call_clone(i, j) ==
    /\ i \in Live
    /\ j \notin Live
    /\ outcome.n < MaxCalls
    /\ refs' = [refs EXCEPT ![j] = clone(refs[i])]
    /\ strong' = [strong EXCEPT ![refs[i].arc] = @ + 1]
    /\ outcome' = [n |-> outcome.n + 1, fn |-> "clone", this |-> i, into |-> j]
    /\ UNCHANGED <<slot_vars, active_value, value, drops, nalloc, addr, ub, counter_vars, pc, op,
                   update, arc_ptr, new, arc, scan_vars, caller_vars, nops, log_vars,
                   rcs_vars, latest>>

\* an RcuRef goes out of scope: its Arc is dropped
drop_ref(i) ==
    /\ i \in Live
    /\ refs' = [refs EXCEPT ![i] = NoRef]
    /\ strong' = [strong EXCEPT ![refs[i].arc] = DecOutcome(refs[i].arc)]
    /\ drops' = [drops EXCEPT ![refs[i].arc] = DropsAfterDec(refs[i].arc)]
    /\ ub' = (ub \/ strong[refs[i].arc] = 0)
    /\ UNCHANGED <<outcome, slot_vars, active_value, value, nalloc, addr, counter_vars, pc, op,
                   update, arc_ptr, new, arc, scan_vars, caller_vars, nops, log_vars,
                   rcs_vars, latest>>

\* the atomic Slot, with an allocator that reuses the addresses of freed payloads
InitSnapshot == InitAddr /\ impl = "atomic"

\* a step inside a read or a replace that has begun
step_snapshot(t) ==
    \/ enter_rcs(t)
    \/ load(t)
    \/ increment_strong_count(t)
    \/ leave_rcs(t)
    \/ wait_for_epochs(t)
    \/ sample(t)
    \/ retain(t)
    \/ into_inner(t)

NextSnapshot ==
    \/ \E t \in Threads : read(t)
    \/ \E t \in Threads, v \in ReplaceValues : safe_replace(t, v)
    \/ \E t \in Threads : step_snapshot(t)
    \/ \E t \in Threads : drop_displaced(t)
    \/ \E t \in Threads, i \in Places : call_new(t, i)
    \/ \E i \in Places, f \in Projections : call_map(i, f)
    \/ \E i \in Places, f \in FallibleProjections : call_try_map(i, f)
    \/ \E i \in Places, j \in Places : call_clone(i, j)
    \/ \E i \in Places : drop_ref(i)

SpecSnapshot == InitSnapshot /\ [][NextSnapshot]_vars

\* C33: map and a try_map that returns Some leave the root of the RcuRef as it was, so
\* the result is same_epoch with every RcuRef of that root; clone gives an RcuRef that
\* is same_epoch and ptr_eq with the original; two RcuRefs are same_epoch exactly
\* when they hold the same payload instance, so those of reads with no write between
\* them are, and those of reads before and after a replace are not
C33_SnapshotIdentity ==
    /\ [](\A i \in Live, j \in Live :
             same_epoch(refs[i], refs[j]) <=> (refs[i].arc = refs[j].arc))
    /\ [][\A i \in Places :
              (/\ outcome'.n = outcome.n + 1
               /\ outcome'.fn \in {"map", "try_map"}
               /\ outcome'.into = i) =>
                  /\ refs'[i].arc = refs[i].arc
                  /\ strong'[refs[i].arc] = strong[refs[i].arc]
                  /\ \A j \in Places :
                         (refs'[j] # NoRef /\ refs'[j].arc = refs[i].arc) =>
                             same_epoch(refs'[i], refs'[j])]_vars
    /\ [][\A i \in Places, j \in Places :
              (/\ outcome'.n = outcome.n + 1
               /\ outcome'.fn = "clone"
               /\ outcome'.this = i
               /\ outcome'.into = j) =>
                  /\ refs'[i] = refs[i]
                  /\ same_epoch(refs'[j], refs'[i])
                  /\ data_ptr_eq(refs'[j], refs'[i])]_vars

\* one RcuRef was read before a replace and mapped to a field, the other was read
\* after the replace has returned and its caller dropped the displaced Arc: they are
\* not same_epoch
C33_Witness ==
    \E i \in Live, j \in Live :
        /\ refs[i].arc = history[1]
        /\ refs[i].data = <<addr[history[1]], 1>>
        /\ outcome.fn \in {"map", "try_map"}
        /\ Len(history) = 2
        /\ refs[j].arc = history[2]
        /\ returned # {}
        /\ \A t \in Threads : displaced[t] = NoPayload
        /\ ~same_epoch(refs[i], refs[j])

\* C34 as stated: a try_map whose closure returns None leaves the RcuRef it was given,
\* and the strong count of its root, as they were
C34_FailedTryMapKeepsRoot ==
    [][\A i \in Places :
           (/\ outcome'.n = outcome.n + 1
            /\ outcome'.fn = "try_map"
            /\ outcome'.this = i
            /\ outcome'.into = 0) =>
               /\ refs'[i] = refs[i]
               /\ strong'[refs[i].arc] = strong[refs[i].arc]]_vars

\* C34: a try_map whose closure returns None returns None and consumes the RcuRef it
\* was given: the place is empty afterwards and the strong count of the root is one
\* less, the payload being dropped when that was its last count; a try_map that
\* returns Some leaves the strong count as it was
C34_FailedTryMapReleasesRoot ==
    /\ [](\A i \in Live : try_map(refs[i], "none") = None)
    /\ [][\A i \in Places :
              (/\ outcome'.n = outcome.n + 1
               /\ outcome'.fn = "try_map"
               /\ outcome'.this = i) =>
                  IF outcome'.into = 0
                  THEN /\ refs'[i] = NoRef
                       /\ strong'[refs[i].arc] = strong[refs[i].arc] - 1
                       /\ drops'[refs[i].arc] = IF strong[refs[i].arc] = 1 THEN 1 ELSE 0
                       /\ \A j \in Places \ {i} : refs'[j] = refs[j]
                  ELSE /\ refs'[i].arc = refs[i].arc
                       /\ strong' = strong
                       /\ drops' = drops]_vars

\* the only read of the behaviour was wrapped into an RcuRef and given to a try_map
\* whose closure returned None: no RcuRef is left and the payload has only the
\* strong count of the Slot
C34_Witness ==
    /\ nops = 1
    /\ \A t \in Threads : pc[t] = "idle" /\ held[t] = NoPayload
    /\ Live = {}
    /\ outcome.n = 1 /\ outcome.fn = "try_map" /\ outcome.into = 0
    /\ history = <<1>>
    /\ strong[1] = 1

\* ---- a try_update under continuous contention ---------------------------------------------

\* the thread whose try_update is watched; the other writer is Writer
Victim == 1

InitStarve == Init /\ impl = "atomic"

\* the one raw_try_update(|n| Some(n + 1)) of the Victim
starve_call == raw_try_update(Victim, "inc") /\ UNCHANGED nops

\* the steps of the Victim's call; the scheduler lets it run its compare_exchange
\* only after another write has exchanged the pointer it loaded
victim_step ==
    /\ pc[Victim] = "update" => active_value # arc_ptr[Victim]
    /\ \/ enter_rcs(Victim)
       \/ load(Victim)
       \/ increment_strong_count(Victim)
       \/ leave_rcs(Victim)
       \/ compare_exchange(Victim)
       \/ drop_old(Victim)

\* the other writer calls replace again and again, at any time
contend(v) == safe_replace(Writer, v)

\* the steps of the other writer's replace after the swap
contender_step ==
    \/ wait_for_epochs(Writer)
    \/ sample(Writer)
    \/ retain(Writer)
    \/ into_inner(Writer)

\* the other writer drops the Arc its replace returned
contender_drop == drop_displaced(Writer)

NextStarve ==
    \/ starve_call
    \/ victim_step
    \/ \E v \in ReplaceValues : contend(v)
    \/ contender_step
    \/ contender_drop

SpecStarve == InitStarve /\ [][NextStarve]_vars

====
